---- MODULE Spec2Model ----
(***************************************************************************)
(* Model of the BFF authentication broker of terraform/modules/agentcore-  *)
(* bff: the OIDC login/callback handler (auth_handler.py), its JIT tenant  *)
(* onboarding, and the request authorizer (authorizer.py), all sharing one *)
(* DynamoDB table.  Every handler invocation is a process whose steps are  *)
(* its store and network operations, so that concurrent invocations        *)
(* interleave exactly where the Lambdas do.                                *)
(*                                                                         *)
(* Text is a sequence of one-token strings, so that cookie parsing and     *)
(* cookie formatting are computed, not assumed.                            *)
(***************************************************************************)
EXTENDS Integers, Sequences, FiniteSets, TLC

VARIABLES store, now, authz, cb, onb, lg, nextId

vars == <<store, now, authz, cb, onb, lg, nextId>>

(***************************************************************************)
(* Bounds of the model.                                                    *)
(***************************************************************************)
MaxTick == 1       \* seconds the clock may advance
MaxOnb == 2        \* concurrent onboarding runs
MaxIds == 4        \* identifiers that uuid4 hands out
MaxAuthz == 2      \* concurrent Authorizer invocations
MaxCb == 2         \* concurrent callbacks for one temp session

(***************************************************************************)
(* Values.                                                                 *)
(***************************************************************************)
None == <<"<None>">>           \* Python None (a text that no real text equals)
EmptyStr == <<>>               \* Python ""
EmptyDict == [k \in {} |-> None]   \* Python {}, also "no item" and "no context"

APP_ID == <<"app">>            \* os.environ["APP_ID"], the same in both Lambdas
OTHER_APP == <<"app2">>        \* an app id that is not the configured one
METHOD_ARN == <<"arn">>        \* event["methodArn"]

TA == <<"A">>                  \* tenant ids
TB == <<"B">>
S1 == <<"1">>                  \* session ids
S2 == <<"2">>

Now0 == 1000                   \* the clock when the model starts

Truthy(v) == v # None /\ v # <<>>

\* dict.get(key, default) and dict.get(key) on a record
Get(d, k, default) == IF k \in DOMAIN d THEN d[k] ELSE default

GetN(d, k) == Get(d, k, None)

\* str(v) and f"{v}" of a text or of None
Str(v) == IF v = None THEN <<"None">> ELSE v

\* a or b
Or(a, b) == IF Truthy(a) THEN a ELSE b

(***************************************************************************)
(* Text helpers: str.split, str.strip, `in`.                               *)
(***************************************************************************)
Contains(s, ch) == \E i \in 1..Len(s) : s[i] = ch

RECURSIVE Split(_, _)
Split(s, sep) ==
    IF ~Contains(s, sep) THEN <<s>>
    ELSE LET i == CHOOSE k \in 1..Len(s) :
                      s[k] = sep /\ \A j \in 1..(k - 1) : s[j] # sep
         IN <<SubSeq(s, 1, i - 1)>> \o Split(SubSeq(s, i + 1, Len(s)), sep)

\* str.split(sep, 1): at most one split
Split1(s, sep) ==
    IF ~Contains(s, sep) THEN <<s>>
    ELSE LET i == CHOOSE k \in 1..Len(s) :
                      s[k] = sep /\ \A j \in 1..(k - 1) : s[j] # sep
         IN <<SubSeq(s, 1, i - 1), SubSeq(s, i + 1, Len(s))>>

RECURSIVE Strip(_)
Strip(s) ==
    IF s = <<>> THEN s
    ELSE IF s[1] = " " THEN Strip(Tail(s))
    ELSE IF s[Len(s)] = " " THEN Strip(SubSeq(s, 1, Len(s) - 1))
    ELSE s

Lower(name) == IF name = "Cookie" THEN "cookie" ELSE name

(***************************************************************************)
(* The DynamoDB table: a set of items, at most one per (pk, sk).           *)
(***************************************************************************)
HasKey(item, pk, sk) == item.pk = pk /\ item.sk = sk

\* a lookup by sort key alone, across partitions
get_item_any_partition(st, pk, sk) ==
    IF \E i \in st : i.sk = sk
    THEN CHOOSE i \in st : i.sk = sk
    ELSE EmptyDict

\* table.get_item(Key=...).get("Item")
get_item(st, pk, sk) ==
    IF \E i \in st : HasKey(i, pk, sk)
    THEN CHOOSE i \in st : HasKey(i, pk, sk)
    ELSE EmptyDict

\* table.put_item(Item=item): replaces whatever is stored under the key
put_item(st, item) == {i \in st : ~HasKey(i, item.pk, item.sk)} \cup {item}

\* table.delete_item(Key=...)
delete_item(st, pk, sk) == {i \in st : ~HasKey(i, pk, sk)}

Merge(r, u) == [k \in DOMAIN r \cup DOMAIN u |-> IF k \in DOMAIN u THEN u[k] ELSE r[k]]

\* an update that stores only the key and the attributes it sets
update_item_replace(st, pk, sk, sets) ==
    put_item(st, Merge([pk |-> pk, sk |-> sk], sets))

\* table.update_item(Key=..., UpdateExpression="SET ..."): DynamoDB sets the
\* attributes of the item, creating the item when the key is not stored
update_item(st, pk, sk, sets) ==
    LET old == get_item(st, pk, sk)
        base == IF old = EmptyDict THEN [pk |-> pk, sk |-> sk] ELSE old
    IN  put_item(st, Merge(base, sets))

\* one partition for every tenant
tenant_pk_shared(tenant_id) == <<"APP#">> \o APP_ID \o <<"#TENANT#">>

\* auth_handler.tenant_pk and the f-string of authorizer.py line 147
tenant_pk(tenant_id) == <<"APP#">> \o APP_ID \o <<"#TENANT#">> \o Str(tenant_id)

session_sk(session_id) == <<"SESSION#">> \o session_id

(***************************************************************************)
(* JWTs.  A token is text; its payload part is base64url(JSON), which the  *)
(* table below decodes.  A payload outside the table does not decode.      *)
(***************************************************************************)
PayloadNames == {"pA", "pB", "pTA", "pN", "pE", "pO"}

JsonOfPayload(name) ==
    CASE name = "pA"  -> [tid |-> TA, sub |-> <<"u1">>, email |-> <<"e1">>]
      [] name = "pB"  -> [tid |-> TB, oid |-> <<"u2">>, upn |-> <<"e2">>]
      [] name = "pTA" -> [tenant_id |-> TA, sub |-> <<"u1">>]
      [] name = "pN"  -> [sub |-> <<"u3">>]
      [] name = "pE"  -> [tid |-> EmptyStr, tenant_id |-> TB, sub |-> <<"u2">>]
      [] name = "pO"  -> [tid |-> TA, oid |-> <<"u4">>, upn |-> <<"e4">>]

Jwt(name) == <<"hdr", ".", name, ".", "sig">>

\* authorizer.decode_jwt_claims
decode_jwt_claims(token) ==
    IF ~Truthy(token) THEN EmptyDict
    ELSE LET parts == Split(token, ".")
         IN  IF Len(parts) # 3 THEN EmptyDict
             ELSE IF Len(parts[2]) = 1 /\ parts[2][1] \in PayloadNames
                  THEN JsonOfPayload(parts[2][1])
                  ELSE EmptyDict

\* the tenant claim taken from the access_token first
extract_tenant_claim_access_first(item) ==
    LET idc == decode_jwt_claims(GetN(item, "id_token"))
        idt == Or(GetN(idc, "tid"), GetN(idc, "tenant_id"))
        acc == decode_jwt_claims(GetN(item, "access_token"))
        act == Or(GetN(acc, "tid"), GetN(acc, "tenant_id"))
    IN  IF Truthy(act) THEN [tenant |-> act, claims |-> acc]
        ELSE IF Truthy(idt) THEN [tenant |-> idt, claims |-> idc]
        ELSE [tenant |-> None, claims |-> EmptyDict]

\* authorizer.extract_tenant_claim: (tenant claim, claims), id_token first
extract_tenant_claim(item) ==
    LET idc == decode_jwt_claims(GetN(item, "id_token"))
        idt == Or(GetN(idc, "tid"), GetN(idc, "tenant_id"))
        acc == decode_jwt_claims(GetN(item, "access_token"))
        act == Or(GetN(acc, "tid"), GetN(acc, "tenant_id"))
    IN  IF Truthy(idt) THEN [tenant |-> idt, claims |-> idc]
        ELSE IF Truthy(act) THEN [tenant |-> act, claims |-> acc]
        ELSE [tenant |-> None, claims |-> EmptyDict]

\* generate_policy without its "if context:" guard
generate_policy_always_context(principal_id, effect, resource, context) ==
    [principalId |-> principal_id, Effect |-> effect, Resource |-> resource,
     context |-> context]

\* authorizer.generate_policy
generate_policy(principal_id, effect, resource, context) ==
    LET policy == [principalId |-> principal_id, Effect |-> effect, Resource |-> resource]
    IN  IF context # EmptyDict THEN Merge(policy, [context |-> context]) ELSE policy

Deny == generate_policy(<<"user">>, "Deny", METHOD_ARN, EmptyDict)

(***************************************************************************)
(* Cookie parsing, authorizer.py lines 126-144.                            *)
(***************************************************************************)
\* next((v for k, v in headers.items() if k.lower() == "cookie"), None)
CookieHeader(headers) ==
    IF \E i \in 1..Len(headers) : Lower(headers[i].name) = "cookie"
    THEN headers[CHOOSE i \in 1..Len(headers) :
                     /\ Lower(headers[i].name) = "cookie"
                     /\ \A j \in 1..(i - 1) : Lower(headers[j].name) # "cookie"].value
    ELSE None

\* {c.split("=")[0].strip(): c.split("=")[1].strip() for c in h.split(";") if "=" in c}
ParseCookies(cookie_header) ==
    LET segs == SelectSeq(Split(cookie_header, ";"), LAMBDA c : Contains(c, "="))
    IN  [i \in 1..Len(segs) |->
            [k |-> Strip(Split(segs[i], "=")[1]), v |-> Strip(Split(segs[i], "=")[2])]]

\* cookies.get(name): a later pair of the same name replaces an earlier one
CookieGet(cookies, name) ==
    IF \E i \in 1..Len(cookies) : cookies[i].k = name
    THEN cookies[CHOOSE i \in 1..Len(cookies) :
                     /\ cookies[i].k = name
                     /\ \A j \in (i + 1)..Len(cookies) : cookies[j].k # name].v
    ELSE None

(***************************************************************************)
(* Program constants.                                                      *)
(***************************************************************************)
REFRESH_WINDOW == 300          \* authorizer.py line 183
DEFAULT_EXPIRES_IN == 3600     \* authorizer.py line 96, auth_handler.py line 318

(***************************************************************************)
(* The Authorizer (authorizer.lambda_handler).  One invocation is a        *)
(* process: the request step (parse, lookup, checks), then - on the        *)
(* refresh path - the token-endpoint call and the store update.            *)
(***************************************************************************)
AuthzIdle ==
    [pc |-> "idle", event |-> [headers |-> <<>>], tenant_id |-> None, session_id |-> None,
     item |-> EmptyDict, claims |-> EmptyDict, access_token |-> None, expires_at |-> 0,
     refresh_token |-> None, new_access_token |-> None, new_refresh_token |-> None,
     new_expires_at |-> 0, result |-> "none", policy |-> EmptyDict, ops |-> <<>>, t0 |-> 0]

\* the cross-check without its app_id comparison
CrossCheck_no_app(item, tenant_id, session_id) ==
    LET stored_tenant_id == Str(Get(item, "tenant_id", EmptyStr))
        stored_session_id == Str(Get(item, "session_id", session_id))
    IN  /\ ~(Truthy(stored_tenant_id) /\ stored_tenant_id # tenant_id)
        /\ ~(Truthy(stored_session_id) /\ stored_session_id # session_id)

\* lines 154-167: the stored tenant_id / app_id / session_id against the cookie
CrossCheck(item, tenant_id, session_id) ==
    LET stored_tenant_id == Str(Get(item, "tenant_id", EmptyStr))
        stored_app_id == Str(Get(item, "app_id", EmptyStr))
        stored_session_id == Str(Get(item, "session_id", session_id))
    IN  /\ ~(Truthy(stored_tenant_id) /\ stored_tenant_id # tenant_id)
        /\ ~(Truthy(stored_app_id) /\ stored_app_id # APP_ID)
        /\ ~(Truthy(stored_session_id) /\ stored_session_id # session_id)

\* the claim check made as lenient as the cross-check: no claim, no comparison
ClaimCheck_lenient(item, tenant_id) ==
    LET claim_tenant_id == extract_tenant_claim(item).tenant
    IN  ~(Truthy(claim_tenant_id) /\ claim_tenant_id # tenant_id)

\* lines 169-176: the tenant claim of the stored tokens against the cookie
ClaimCheck(item, tenant_id) ==
    LET claim_tenant_id == extract_tenant_claim(item).tenant
    IN  Truthy(claim_tenant_id) /\ claim_tenant_id = tenant_id

\* a refresh window that takes in the session that expires in exactly 300 s
NeedsRefresh_inclusive(expires_at, refresh_token, t) ==
    expires_at <= t + REFRESH_WINDOW /\ Truthy(refresh_token)

\* line 183: expired or close to expiring, and a refresh token is stored
NeedsRefresh(expires_at, refresh_token, t) ==
    expires_at < t + REFRESH_WINDOW /\ Truthy(refresh_token)

\* lines 188, 191
Expired(expires_at, t) == expires_at < t

\* a context whose hints come from sub and email alone
Allow_sub_and_email_only(session_id, tenant_id, access_token, claims) ==
    generate_policy(session_id, "Allow", METHOD_ARN,
        [access_token |-> access_token,
         session_id |-> session_id,
         tenant_id |-> tenant_id,
         app_id |-> APP_ID,
         principal_sub |-> Or(GetN(claims, "sub"), EmptyStr),
         principal_email |-> Or(GetN(claims, "email"), EmptyStr)])

\* lines 196-208
Allow(session_id, tenant_id, access_token, claims) ==
    generate_policy(session_id, "Allow", METHOD_ARN,
        [access_token |-> access_token,
         session_id |-> session_id,
         tenant_id |-> tenant_id,
         app_id |-> APP_ID,
         principal_sub |-> Or(Or(GetN(claims, "sub"), GetN(claims, "oid")), EmptyStr),
         principal_email |-> Or(Or(GetN(claims, "email"), GetN(claims, "upn")), EmptyStr)])

Returned(a, policy) == [a EXCEPT !.pc = "done", !.result = "policy", !.policy = policy]

Raised(a) == [a EXCEPT !.pc = "done", !.result = "raised"]

\* lines 150-193, given the item the lookup returned at time t
AfterLookup(a, item, t) ==
    IF item = EmptyDict THEN Returned(a, Deny)
    ELSE IF ~CrossCheck(item, a.tenant_id, a.session_id) THEN Returned(a, Deny)
    ELSE IF ~ClaimCheck(item, a.tenant_id) THEN Returned(a, Deny)
    ELSE IF "access_token" \notin DOMAIN item \/ "expires_at" \notin DOMAIN item
         THEN Raised(a)                          \* item["..."]: KeyError
    ELSE LET b == [a EXCEPT !.claims = extract_tenant_claim(item).claims,
                            !.access_token = item.access_token,
                            !.expires_at = item.expires_at,
                            !.refresh_token = GetN(item, "refresh_token")]
         IN  IF NeedsRefresh(b.expires_at, b.refresh_token, t)
             THEN [b EXCEPT !.pc = "refresh"]
             ELSE IF Expired(b.expires_at, t) THEN Returned(b, Deny)
             ELSE Returned(b, Allow(b.session_id, b.tenant_id, b.access_token, b.claims))

\* the refresh result handled without the "elif expires_at < time.time()" branch
AfterRefresh_keep_expired(a, new_token, t) ==
    IF Truthy(new_token)
    THEN Returned(a, Allow(a.session_id, a.tenant_id, new_token, a.claims))
    ELSE Returned(a, Allow(a.session_id, a.tenant_id, a.access_token, a.claims))

\* a handler that goes back to the token endpoint when the refresh failed
AfterRefresh_retry(a, new_token, t) ==
    IF Truthy(new_token)
    THEN Returned(a, Allow(a.session_id, a.tenant_id, new_token, a.claims))
    ELSE [a EXCEPT !.pc = "refresh"]

\* a handler that denies whenever the refresh failed
AfterRefresh_deny_on_failure(a, new_token, t) ==
    IF Truthy(new_token)
    THEN Returned(a, Allow(a.session_id, a.tenant_id, new_token, a.claims))
    ELSE Returned(a, Deny)

\* a handler that goes on with the token it read, whatever the refresh gave
AfterRefresh_stored_token(a, new_token, t) ==
    IF Truthy(new_token)
    THEN Returned(a, Allow(a.session_id, a.tenant_id, a.access_token, a.claims))
    ELSE IF Expired(a.expires_at, t) THEN Returned(a, Deny)
    ELSE Returned(a, Allow(a.session_id, a.tenant_id, a.access_token, a.claims))

\* lines 185-193, 196: after refresh_session returned (new_token, new_expiry)
AfterRefresh(a, new_token, t) ==
    IF Truthy(new_token)
    THEN Returned(a, Allow(a.session_id, a.tenant_id, new_token, a.claims))
    ELSE IF Expired(a.expires_at, t) THEN Returned(a, Deny)
    ELSE Returned(a, Allow(a.session_id, a.tenant_id, a.access_token, a.claims))

GetOp(pk, sk, ok) == [op |-> "get", pk |-> pk, sk |-> sk, ok |-> ok]

NoSession == [ok |-> FALSE, tenant_id |-> None, session_id |-> None]

\* the parse without the ':' test: a bare value is taken as the session id
ParseSession_no_separator_test(event) ==
    LET cookie_header == CookieHeader(event.headers)
    IN  IF ~Truthy(cookie_header) THEN NoSession
        ELSE LET raw_session == CookieGet(ParseCookies(cookie_header), <<"session_id">>)
             IN  IF ~Truthy(raw_session) THEN NoSession
                 ELSE IF ~Contains(raw_session, ":")
                      THEN [ok |-> TRUE, tenant_id |-> EmptyStr, session_id |-> raw_session]
                 ELSE [ok |-> TRUE,
                       tenant_id |-> Split1(raw_session, ":")[1],
                       session_id |-> Split1(raw_session, ":")[2]]

\* lines 126-144: the (tenant_id, session_id) of the session cookie, if any
ParseSession(event) ==
    LET cookie_header == CookieHeader(event.headers)
    IN  IF ~Truthy(cookie_header) THEN NoSession
        ELSE LET raw_session == CookieGet(ParseCookies(cookie_header), <<"session_id">>)
             IN  IF ~Truthy(raw_session) THEN NoSession
                 ELSE IF ~Contains(raw_session, ":") THEN NoSession
                 ELSE [ok |-> TRUE,
                       tenant_id |-> Split1(raw_session, ":")[1],
                       session_id |-> Split1(raw_session, ":")[2]]

\* lines 125-183: parse the cookie, look the session up, check it
Request(a, event, st, t, store_ok) ==
    LET a0 == [AuthzIdle EXCEPT !.event = event, !.t0 = t]
        parsed == ParseSession(event)
    IN  IF ~parsed.ok THEN Returned(a0, Deny)
        ELSE LET pk == tenant_pk(parsed.tenant_id)
                 sk == session_sk(parsed.session_id)
                 a1 == [a0 EXCEPT !.tenant_id = parsed.tenant_id,
                                  !.session_id = parsed.session_id,
                                  !.ops = <<GetOp(pk, sk, store_ok)>>]
             IN  IF ~store_ok THEN Raised(a1)
                 ELSE LET item == get_item(st, pk, sk)
                      IN  AfterLookup([a1 EXCEPT !.item = item], item, t)

(***************************************************************************)
(* Inputs of the Authorizer: events and token-endpoint responses.          *)
(***************************************************************************)
SessionCookie(value) == <<"session_id", "=">> \o value

Composite(tenant_id, session_id) == tenant_id \o <<":">> \o session_id

CookieTenants == {TA, TB}
CookieSessions == {S1, S2}

CookieEvent(name, text) == [headers |-> <<[name |-> name, value |-> text]>>]

WellFormedEvents ==
    {CookieEvent("Cookie", SessionCookie(Composite(t, s))) : t \in CookieTenants, s \in CookieSessions}

AuthzEvents ==
    WellFormedEvents \cup
    { [headers |-> <<>>],                                             \* no headers
      [headers |-> <<[name |-> "Host", value |-> <<"h">>]>>],          \* no Cookie header
      CookieEvent("Cookie", EmptyStr),                                \* empty Cookie header
      CookieEvent("Cookie", <<"temp_session_id", "=", "1">>),         \* no session_id cookie
      CookieEvent("Cookie", <<"session_id">>),                        \* no "="
      CookieEvent("Cookie", SessionCookie(EmptyStr)),                 \* empty value
      CookieEvent("Cookie", SessionCookie(<<"A", "1">>)),             \* no ":"
      CookieEvent("Cookie", SessionCookie(<<"A", ":", "B", ":", "1">>)),
      CookieEvent("cookie", SessionCookie(Composite(TA, S1))),       \* lower-case header name
      CookieEvent("Cookie", <<"x", "=", "y", ";", " ">> \o SessionCookie(Composite(TA, S1))),
      CookieEvent("Cookie", SessionCookie(Composite(TA, S1)) \o <<";", " ">>
                                \o SessionCookie(Composite(TB, S1))) }

\* the requests of a browser that holds a session cookie, of one that holds
\* none, and of one that holds the cookie of the placeholder tenant
SessionEvents ==
    WellFormedEvents \cup
    { [headers |-> <<>>],
      CookieEvent("Cookie", SessionCookie(Composite(<<"unknown">>, S2))) }

\* what the token endpoint answers to a refresh_token grant
RefreshResponses ==
    { [error |-> <<"HTTPError">>],
      [expires_in |-> 60],                                            \* no access_token
      [access_token |-> <<"at1">>, refresh_token |-> <<"rt1">>, expires_in |-> 60],
      [access_token |-> <<"at1">>] }

(***************************************************************************)
(* Actions of the Authorizer.                                              *)
(***************************************************************************)
\* lambda_handler up to the lookup and the checks that follow it
AuthzRequestOf(p, events) ==
    /\ authz[p].pc = "idle"
    /\ \E event \in events :
           authz' = [authz EXCEPT ![p] = Request(authz[p], event, store, now, TRUE)]
    /\ UNCHANGED <<store, now, cb, onb, lg, nextId>>

AuthzRequest(p) == AuthzRequestOf(p, AuthzEvents)

\* table.get_item raises: the handler does not catch it
AuthzRequestFaultOf(p, events) ==
    /\ authz[p].pc = "idle"
    /\ \E event \in events :
           /\ Request(authz[p], event, store, now, FALSE).ops # <<>>
           /\ authz' = [authz EXCEPT ![p] = Request(authz[p], event, store, now, FALSE)]
    /\ UNCHANGED <<store, now, cb, onb, lg, nextId>>

AuthzRequestFault(p) == AuthzRequestFaultOf(p, AuthzEvents)

\* the authorizer invoked with the requests of SessionEvents
AuthzSessionRequest(p) == AuthzRequestOf(p, SessionEvents)

AuthzSessionRequestFault(p) == AuthzRequestFaultOf(p, SessionEvents)

\* get_secret lines 54-62: a fetch that raises is logged and gives None
SecretFetch(ok) == [op |-> "secret", ok |-> ok]

SecretOp == SecretFetch(TRUE)

TokenOp(grant, resp) ==
    [op |-> "token", grant |-> grant, resp |-> resp, ok |-> "error" \notin DOMAIN resp]

UpdateOp(pk, sk, ok) == [op |-> "update", pk |-> pk, sk |-> sk, ok |-> ok]

\* refresh_session lines 77-97: the refresh_token grant
AuthzRefreshExchangeOf(p, secret) ==
    /\ authz[p].pc = "refresh"
    /\ \E resp \in RefreshResponses :
           LET a == authz[p]
               ok == "error" \notin DOMAIN resp
               a1 == [a EXCEPT !.ops = a.ops \o <<secret, TokenOp("refresh_token", resp)>>]
           IN  IF ~ok \/ "access_token" \notin DOMAIN resp
               THEN authz' = [authz EXCEPT ![p] = AfterRefresh(a1, None, now)]
               ELSE authz' = [authz EXCEPT ![p] =
                        [a1 EXCEPT !.pc = "update",
                                   !.new_access_token = resp.access_token,
                                   !.new_refresh_token = Get(resp, "refresh_token", a.refresh_token),
                                   !.new_expires_at = now + Get(resp, "expires_in", DEFAULT_EXPIRES_IN)]]
    /\ UNCHANGED <<store, now, cb, onb, lg, nextId>>

AuthzRefreshExchange(p) == AuthzRefreshExchangeOf(p, SecretOp)

\* get_secret raises inside: the grant is posted without client_secret
AuthzRefreshSecretFault(p) == AuthzRefreshExchangeOf(p, SecretFetch(FALSE))

\* an update that leaves the stored refresh token as it is
AuthzRefreshUpdate_token_only(p) ==
    /\ authz[p].pc = "update"
    /\ LET a == authz[p]
           pk == tenant_pk(a.tenant_id)
           sk == session_sk(a.session_id)
           a1 == [a EXCEPT !.ops = Append(a.ops, UpdateOp(pk, sk, TRUE))]
       IN  /\ store' = update_item(store, pk, sk,
                           [access_token |-> a.new_access_token,
                            expires_at |-> a.new_expires_at])
           /\ authz' = [authz EXCEPT ![p] = AfterRefresh(a1, a.new_access_token, now)]
    /\ UNCHANGED <<now, cb, onb, lg, nextId>>

\* refresh_session lines 100-106, then lambda_handler lines 185-208
AuthzRefreshUpdate(p) ==
    /\ authz[p].pc = "update"
    /\ LET a == authz[p]
           pk == tenant_pk(a.tenant_id)
           sk == session_sk(a.session_id)
           a1 == [a EXCEPT !.ops = Append(a.ops, UpdateOp(pk, sk, TRUE))]
       IN  /\ store' = update_item(store, pk, sk,
                           [access_token |-> a.new_access_token,
                            refresh_token |-> a.new_refresh_token,
                            expires_at |-> a.new_expires_at])
           /\ authz' = [authz EXCEPT ![p] = AfterRefresh(a1, a.new_access_token, now)]
    /\ UNCHANGED <<now, cb, onb, lg, nextId>>

\* a failed update that hands the new token to the handler all the same
AuthzRefreshUpdateFault_new_token(p) ==
    /\ authz[p].pc = "update"
    /\ LET a == authz[p]
           a1 == [a EXCEPT !.ops = Append(a.ops,
                      UpdateOp(tenant_pk(a.tenant_id), session_sk(a.session_id), FALSE))]
       IN  authz' = [authz EXCEPT ![p] = AfterRefresh(a1, a.new_access_token, now)]
    /\ UNCHANGED <<store, now, cb, onb, lg, nextId>>

\* table.update_item raises: refresh_session catches it and returns (None, None)
AuthzRefreshUpdateFault(p) ==
    /\ authz[p].pc = "update"
    /\ LET a == authz[p]
           a1 == [a EXCEPT !.ops = Append(a.ops,
                      UpdateOp(tenant_pk(a.tenant_id), session_sk(a.session_id), FALSE))]
       IN  authz' = [authz EXCEPT ![p] = AfterRefresh(a1, None, now)]
    /\ UNCHANGED <<store, now, cb, onb, lg, nextId>>

\* the invocation has returned its policy (or raised): the slot is free again
AuthzReturn(p) ==
    /\ authz[p].pc = "done"
    /\ authz' = [authz EXCEPT ![p] = AuthzIdle]
    /\ UNCHANGED <<store, now, cb, onb, lg, nextId>>

\* the wall clock, time.time()
Tick ==
    /\ now < Now0 + MaxTick
    /\ now' = now + 1
    /\ UNCHANGED <<store, authz, cb, onb, lg, nextId>>

(***************************************************************************)
(* SpecAuthz: the Authorizer over every stored session record.             *)
(***************************************************************************)
Opt(name, values) == {EmptyDict} \cup {[k \in {name} |-> v] : v \in values}

ExpiryOffsets == {-1, 0, REFRESH_WINDOW - 1, REFRESH_WINDOW}

\* the items a lookup can return: any field may be absent or off
StoredSessions ==
    { Merge(Merge(Merge(Merge(Merge(Merge(
        [pk |-> tenant_pk(t), sk |-> session_sk(S1), access_token |-> at,
         expires_at |-> Now0 + off], tf), af), sf), idt), rt), EmptyDict) :
        t \in {TA},
        at \in {<<"at0">>, Jwt("pA")},
        off \in ExpiryOffsets,
        tf \in Opt("tenant_id", {TA, TB}),
        af \in Opt("app_id", {APP_ID, OTHER_APP}),
        sf \in Opt("session_id", {S1, S2}),
        idt \in Opt("id_token", {Jwt("pA"), Jwt("pB"), Jwt("pTA"), Jwt("pN"), Jwt("pO"), <<"opaque">>}),
        rt \in Opt("refresh_token", {<<"rt0">>}) }

InitAuthz ==
    /\ store \in {{}} \cup {{r} : r \in StoredSessions}
    /\ now = Now0
    /\ authz = [p \in {1} |-> AuthzIdle]
    /\ cb = <<>>
    /\ onb = <<>>
    /\ lg = <<>>
    /\ nextId = 1

NextAuthz ==
    \/ \E p \in DOMAIN authz : AuthzRequest(p)
    \/ \E p \in DOMAIN authz : AuthzRequestFault(p)
    \/ \E p \in DOMAIN authz : AuthzRefreshExchange(p)
    \/ \E p \in DOMAIN authz : AuthzRefreshSecretFault(p)
    \/ \E p \in DOMAIN authz : AuthzRefreshUpdate(p)
    \/ \E p \in DOMAIN authz : AuthzRefreshUpdateFault(p)
    \/ \E p \in DOMAIN authz : AuthzReturn(p)
    \/ Tick

SpecAuthz == InitAuthz /\ [][NextAuthz]_vars

(***************************************************************************)
(* SpecRefresh: concurrent Authorizer invocations for one session that the *)
(* callback wrote, near its expiry.  Nothing but the authorizers touches   *)
(* the record.                                                             *)
(***************************************************************************)
\* the session of the race as the callback stored it (auth_handler.py lines
\* 332-345), inside the refresh window when the model starts
RaceSession ==
    [pk |-> tenant_pk(TA), sk |-> session_sk(S1), tenant_id |-> TA, app_id |-> APP_ID,
     session_id |-> S1, access_token |-> <<"at0">>, id_token |-> Jwt("pA"),
     refresh_token |-> <<"rt0">>, expires_at |-> Now0 + REFRESH_WINDOW - 1,
     type |-> <<"session">>]

\* every invocation presents the cookie of that session
RaceEvents == {CookieEvent("Cookie", SessionCookie(Composite(TA, S1)))}

AuthzRaceRequest(p) == AuthzRequestOf(p, RaceEvents)

InitRefresh ==
    /\ store = {RaceSession}
    /\ now = Now0
    /\ authz = [p \in 1..MaxAuthz |-> AuthzIdle]
    /\ cb = <<>>
    /\ onb = <<>>
    /\ lg = <<>>
    /\ nextId = 1

\* an invocation that has its result returns before anything else happens:
\* its return touches nothing the other invocations see
NoneDone == \A p \in DOMAIN authz : authz[p].pc # "done"

NextRefresh ==
    \/ \E p \in DOMAIN authz : NoneDone /\ AuthzRaceRequest(p)
    \/ \E p \in DOMAIN authz : NoneDone /\ AuthzRefreshExchange(p)
    \/ \E p \in DOMAIN authz : NoneDone /\ AuthzRefreshUpdate(p)
    \/ \E p \in DOMAIN authz : NoneDone /\ AuthzRefreshUpdateFault(p)
    \/ \E p \in DOMAIN authz : AuthzReturn(p)
    \/ NoneDone /\ Tick

SpecRefresh == InitRefresh /\ [][NextRefresh]_vars

(***************************************************************************)
(* JIT tenant onboarding (auth_handler.ensure_tenant_onboarding).  A run   *)
(* walks the records in order; each put_item_if_absent is a conditional    *)
(* put and, on conflict, a get that verifies the invariant fields.         *)
(***************************************************************************)
JIT_ONBOARDING_VERSION == <<"jit-v1">>

BASELINE_POLICY_ATTACHMENTS ==
    << [policy_id |-> <<"tenant-isolation">>, policy_type |-> <<"cedar">>,
        scope |-> <<"tenant">>],
       [policy_id |-> <<"session-partition-boundary">>, policy_type |-> <<"session">>,
        scope |-> <<"tenant">>] >>

META_SK == <<"TENANT#META">>

policy_sk(policy_id) == <<"POLICY#BASELINE#">> \o policy_id

MetaRecord(tenant_id, t) ==
    [item |->
        [pk |-> tenant_pk(tenant_id), sk |-> META_SK, type |-> <<"tenant">>,
         app_id |-> APP_ID, tenant_id |-> tenant_id,
         onboarding_state |-> <<"READY">>,
         onboarding_version |-> JIT_ONBOARDING_VERSION,
         tenant_root_prefix |-> APP_ID \o <<"/">> \o Str(tenant_id) \o <<"/">>,
         session_partition_pk |-> tenant_pk(tenant_id),
         created_at |-> t, updated_at |-> t],
     invariant_fields |->
        {"type", "app_id", "tenant_id", "onboarding_state", "onboarding_version",
         "tenant_root_prefix", "session_partition_pk"}]

PolicyRecord(tenant_id, t, attachment) ==
    [item |->
        [pk |-> tenant_pk(tenant_id), sk |-> policy_sk(attachment.policy_id),
         type |-> <<"tenant_policy_attachment">>,
         app_id |-> APP_ID, tenant_id |-> tenant_id,
         attachment_state |-> <<"ATTACHED">>,
         policy_id |-> attachment.policy_id,
         policy_type |-> attachment.policy_type,
         scope |-> attachment.scope,
         attachment_source |-> <<"jit-onboarding">>,
         attachment_version |-> JIT_ONBOARDING_VERSION,
         created_at |-> t, updated_at |-> t],
     invariant_fields |->
        {"type", "app_id", "tenant_id", "attachment_state", "policy_id", "policy_type",
         "scope", "attachment_source", "attachment_version"}]

\* the list built with the policy records ahead of the metadata record
Records_policies_first(tenant_id, t) ==
    [i \in 1..(Len(BASELINE_POLICY_ATTACHMENTS) + 1) |->
        IF i <= Len(BASELINE_POLICY_ATTACHMENTS)
        THEN PolicyRecord(tenant_id, t, BASELINE_POLICY_ATTACHMENTS[i])
        ELSE MetaRecord(tenant_id, t)]

\* lines 133-190: the records of one run, metadata first
Records(tenant_id, t) ==
    <<MetaRecord(tenant_id, t)>> \o
    [i \in 1..Len(BASELINE_POLICY_ATTACHMENTS) |->
        PolicyRecord(tenant_id, t, BASELINE_POLICY_ATTACHMENTS[i])]

NumRecords == Len(BASELINE_POLICY_ATTACHMENTS) + 1

\* lines 129-193: a run that has written nothing yet
ensure_tenant_onboarding(tenant_id, t) ==
    [phase |-> "put", tenant_id |-> tenant_id, t |-> t, idx |-> 1,
     created |-> 0, reused |-> 0, error |-> "none", ops |-> <<>>]

OnbIdle ==
    [phase |-> "idle", tenant_id |-> None, t |-> 0, idx |-> 1,
     created |-> 0, reused |-> 0, error |-> "none", ops |-> <<>>]

PutOp(pk, sk, outcome) == [op |-> "put", pk |-> pk, sk |-> sk, outcome |-> outcome]

\* a loop that stops after the first record
NextRecord_first_only(o) == [o EXCEPT !.phase = "ok", !.idx = @ + 1]

\* lines 194-199: on to the next record, or the run is complete
NextRecord(o) ==
    IF o.idx = NumRecords THEN [o EXCEPT !.phase = "ok", !.idx = @ + 1]
    ELSE [o EXCEPT !.phase = "put", !.idx = @ + 1]

OnbRaise(o, error) == [o EXCEPT !.phase = "raised", !.error = error]

\* a put_item without its ConditionExpression
ConditionHolds_unconditional(st, item) == TRUE

\* the conditional put of lines 105-110: attribute_not_exists(pk) AND attribute_not_exists(sk)
ConditionHolds(st, item) == get_item(st, item.pk, item.sk) = EmptyDict

\* put_item_if_absent lines 105-111; the result is the run and the store
put_item_if_absent(o, st) ==
    LET item == Records(o.tenant_id, o.t)[o.idx].item
    IN  IF ConditionHolds(st, item)
        THEN [o |-> NextRecord([o EXCEPT !.created = @ + 1,
                                        !.ops = Append(@, PutOp(item.pk, item.sk, "created"))]),
              st |-> put_item(st, item)]
        ELSE [o |-> [o EXCEPT !.phase = "get",
                              !.ops = Append(@, PutOp(item.pk, item.sk, "conflict"))],
              st |-> st]

\* lines 108-111: a ClientError other than the conditional-check failure
put_item_if_absent_error(o) ==
    LET item == Records(o.tenant_id, o.t)[o.idx].item
    IN  OnbRaise([o EXCEPT !.ops = Append(@, PutOp(item.pk, item.sk, "error"))], "store")

\* a verification that compares the whole item, timestamps included
InvariantsMatch_whole_item(existing, item, invariant_fields) == existing = item

\* lines 118-123: every invariant field of the stored item equals the one to write
InvariantsMatch(existing, item, invariant_fields) ==
    \A field \in invariant_fields : GetN(existing, field) = GetN(item, field)

\* a conflict handled by trusting whatever is stored
verify_existing_trusting(o, st) ==
    LET rec == Records(o.tenant_id, o.t)[o.idx]
        o1 == [o EXCEPT !.ops = Append(@, GetOp(rec.item.pk, rec.item.sk, TRUE))]
    IN  NextRecord([o1 EXCEPT !.reused = @ + 1])

\* put_item_if_absent lines 113-124: re-read the item and verify it
verify_existing(o, st) ==
    LET rec == Records(o.tenant_id, o.t)[o.idx]
        existing == get_item(st, rec.item.pk, rec.item.sk)
        o1 == [o EXCEPT !.ops = Append(@, GetOp(rec.item.pk, rec.item.sk, TRUE))]
    IN  IF existing = EmptyDict THEN OnbRaise(o1, "unreadable")
        ELSE IF ~InvariantsMatch(existing, rec.item, rec.invariant_fields)
             THEN OnbRaise(o1, "mismatch")
        ELSE NextRecord([o1 EXCEPT !.reused = @ + 1])

\* line 113: table.get_item raises
verify_existing_error(o) ==
    LET item == Records(o.tenant_id, o.t)[o.idx].item
    IN  OnbRaise([o EXCEPT !.ops = Append(@, GetOp(item.pk, item.sk, FALSE))], "store")

(***************************************************************************)
(* Onboarding runs on their own, as processes (concurrent first logins).   *)
(***************************************************************************)
OnbTenants == {TA, TB}

\* the tenants whose login run p may serve: the runs race for tenant A, and
\* the first of them may serve tenant B instead
OnbTenantsOf(p) == IF p = 1 THEN OnbTenants ELSE {TA}

OnbStart(p) ==
    /\ onb[p].phase = "idle"
    /\ \E tenant_id \in OnbTenantsOf(p) :
           onb' = [onb EXCEPT ![p] = ensure_tenant_onboarding(tenant_id, now)]
    /\ UNCHANGED <<store, now, authz, cb, lg, nextId>>

OnbPut(p) ==
    /\ onb[p].phase = "put"
    /\ onb' = [onb EXCEPT ![p] = put_item_if_absent(onb[p], store).o]
    /\ store' = put_item_if_absent(onb[p], store).st
    /\ UNCHANGED <<now, authz, cb, lg, nextId>>

OnbVerify(p) ==
    /\ onb[p].phase = "get"
    /\ onb' = [onb EXCEPT ![p] = verify_existing(onb[p], store)]
    /\ UNCHANGED <<store, now, authz, cb, lg, nextId>>

(***************************************************************************)
(* SpecOnb: concurrent and repeated onboarding runs over a tenant that is  *)
(* new, half-onboarded or onboarded, possibly by an older configuration.   *)
(***************************************************************************)
\* a record left by an earlier deployment whose onboarding version differed
Drifted(item) ==
    IF item.sk = META_SK
    THEN [item EXCEPT !.onboarding_version = <<"jit-v0">>]
    ELSE [item EXCEPT !.attachment_version = <<"jit-v0">>]

\* what an earlier run may have left of record i of the tenant
Earlier(tenant_id, i) ==
    LET item == Records(tenant_id, Now0 - 1)[i].item
    IN  {{}, {item}, {Drifted(item)}}

InitOnb ==
    /\ \E m \in Earlier(TA, 1), p1 \in Earlier(TA, 2), p2 \in Earlier(TA, 3) :
           store = m \cup p1 \cup p2
    /\ now = Now0
    /\ authz = <<>>
    /\ cb = <<>>
    /\ onb = [p \in 1..MaxOnb |-> OnbIdle]
    /\ lg = <<>>
    /\ nextId = 1

\* a run reads the clock once, when it starts (line 130): the clock advances
\* while a run is still to start
OnbTick == (\E p \in DOMAIN onb : onb[p].phase = "idle") /\ Tick

NextOnb ==
    \/ \E p \in DOMAIN onb : OnbStart(p)
    \/ \E p \in DOMAIN onb : OnbPut(p)
    \/ \E p \in DOMAIN onb : OnbVerify(p)
    \/ OnbTick

SpecOnb == InitOnb /\ [][NextOnb]_vars

(***************************************************************************)
(* Login (auth_handler.login): one store write and a redirect.             *)
(***************************************************************************)
TEMP_TTL == 600                \* auth_handler.py line 217

TEMP_PK == <<"APP#">> \o APP_ID \o <<"#TEMP">>

\* str(uuid.uuid4()): the n-th identifier drawn, never drawn before
Uuid(n) == <<ToString(n)>>

StateOf(n) == <<"st", ToString(n)>>
NonceOf(n) == <<"no", ToString(n)>>
VerifierOf(n) == <<"ver", ToString(n)>>

\* the challenge of a verifier, a digest: one text per verifier, and no part
\* of the verifier is a part of it (generate_pkce_pair below spells it out)
Challenge(verifier) == [i \in 1..Len(verifier) |-> "#" \o verifier[i]]

CookieAttrs(max_age) ==
    <<";", " ", "Secure", ";", " ", "HttpOnly", ";", " ", "SameSite", "=", "Strict",
      ";", " ", "Path", "=", "/", ";", " ", "Max-Age", "=", ToString(max_age)>>

TempCookie(temp_session_id) == <<"temp_session_id", "=">> \o temp_session_id

\* a temp session that lives as long as a session does by default
TempItem_session_ttl(n, t) ==
    [pk |-> TEMP_PK, sk |-> session_sk(Uuid(n)), state |-> StateOf(n), nonce |-> NonceOf(n),
     code_verifier |-> VerifierOf(n), expires_at |-> t + DEFAULT_EXPIRES_IN,
     type |-> <<"temp">>, app_id |-> APP_ID]

\* lines 219-230
TempItem(n, t) ==
    [pk |-> TEMP_PK, sk |-> session_sk(Uuid(n)), state |-> StateOf(n), nonce |-> NonceOf(n),
     code_verifier |-> VerifierOf(n), expires_at |-> t + TEMP_TTL, type |-> <<"temp">>,
     app_id |-> APP_ID]

\* a redirect that uses the "plain" challenge method: the verifier itself
LoginResponse_plain_challenge(n) ==
    [statusCode |-> 302,
     headers |->
        [Location |->
            [client_id |-> <<"client">>, response_type |-> <<"code">>,
             redirect_uri |-> <<"redirect">>, scope |-> <<"openid profile email">>,
             state |-> StateOf(n), nonce |-> NonceOf(n),
             code_challenge |-> VerifierOf(n),
             code_challenge_method |-> <<"plain">>],
         SetCookie |-> TempCookie(Uuid(n)) \o CookieAttrs(TEMP_TTL)],
     multiValueHeaders |-> <<TempCookie(Uuid(n)) \o CookieAttrs(TEMP_TTL)>>,
     body |-> EmptyStr]

\* lines 232-253
LoginResponse(n) ==
    [statusCode |-> 302,
     headers |->
        [Location |->
            [client_id |-> <<"client">>, response_type |-> <<"code">>,
             redirect_uri |-> <<"redirect">>, scope |-> <<"openid profile email">>,
             state |-> StateOf(n), nonce |-> NonceOf(n),
             code_challenge |-> Challenge(VerifierOf(n)),
             code_challenge_method |-> <<"S256">>],
         SetCookie |-> TempCookie(Uuid(n)) \o CookieAttrs(TEMP_TTL)],
     multiValueHeaders |-> <<TempCookie(Uuid(n)) \o CookieAttrs(TEMP_TTL)>>,
     body |-> EmptyStr]

LoginIdle == [pc |-> "idle", result |-> "none", resp |-> EmptyDict, ops |-> <<>>]

\* login(event)
Login(p) ==
    /\ lg[p].pc = "idle"
    /\ nextId <= MaxIds
    /\ store' = put_item(store, TempItem(nextId, now))
    /\ lg' = [lg EXCEPT ![p] =
                 [pc |-> "done", result |-> "response", resp |-> LoginResponse(nextId),
                  ops |-> <<PutOp(TEMP_PK, session_sk(Uuid(nextId)), "put")>>]]
    /\ nextId' = nextId + 1
    /\ UNCHANGED <<now, authz, cb, onb>>

\* table.put_item raises: login does not catch it.  The ids it drew are seen
\* by nobody, so the next draw may hand out the same ones.
LoginFault(p) ==
    /\ lg[p].pc = "idle"
    /\ nextId <= MaxIds
    /\ lg' = [lg EXCEPT ![p] =
                 [pc |-> "done", result |-> "raised", resp |-> EmptyDict,
                  ops |-> <<PutOp(TEMP_PK, session_sk(Uuid(nextId)), "error")>>]]
    /\ UNCHANGED <<store, now, authz, cb, onb, nextId>>

LoginReturn(p) ==
    /\ lg[p].pc = "done"
    /\ lg' = [lg EXCEPT ![p] = LoginIdle]
    /\ UNCHANGED <<store, now, authz, cb, onb, nextId>>

(***************************************************************************)
(* Callback (auth_handler.callback).  Its steps: the validation with the   *)
(* temp-session lookup, the code exchange, the temp-session delete, the    *)
(* onboarding puts and verifying gets, the session put.                    *)
(***************************************************************************)
\* JSON null where a dict is expected: API Gateway's queryStringParameters of
\* a request that has no query string
Null == [null |-> None]

CbIdle ==
    [pc |-> "idle", event |-> [queryStringParameters |-> EmptyDict, headers |-> <<>>],
     temp_session_id |-> None, code_verifier |-> None, token_resp |-> EmptyDict,
     session_id |-> None, expires_in |-> 0, expires_at |-> 0, id_token |-> None,
     tenant_id |-> None, o |-> OnbIdle, result |-> "none", resp |-> EmptyDict,
     ops |-> <<>>, post |-> <<>>]

Response(status, body) == [statusCode |-> status, body |-> body]

CbReturned(c, resp) == [c EXCEPT !.pc = "done", !.result = "response", !.resp = resp]

CbRaised(c) == [c EXCEPT !.pc = "done", !.result = "raised"]

\* auth_handler.decode_jwt_claims
decode_jwt_claims_handler(token) ==
    LET parts == Split(token, ".")
    IN  IF Len(parts) # 3 THEN EmptyDict
        ELSE IF Len(parts[2]) = 1 /\ parts[2][1] \in PayloadNames
             THEN JsonOfPayload(parts[2][1])
             ELSE EmptyDict

\* lines 322-324: the tenant of the session
callback_tenant(token_resp) ==
    LET id_token == GetN(token_resp, "id_token")
        claims == IF Truthy(id_token) THEN decode_jwt_claims_handler(id_token) ELSE EmptyDict
    IN  Get(claims, "tid", <<"unknown">>)

\* lines 256-286: the checks before the exchange, with the temp-session lookup
callback_validate(event, st) ==
    LET c0 == [CbIdle EXCEPT !.event = event]
        query_params == event.queryStringParameters
        code == GetN(query_params, "code")
        state == GetN(query_params, "state")
    IN  IF query_params = Null
        THEN CbRaised(c0)                  \* None.get("code"): AttributeError
        ELSE IF ~Truthy(code) \/ ~Truthy(state)
        THEN CbReturned(c0, Response(400, <<"Missing code or state">>))
        ELSE LET cookie_header == CookieHeader(event.headers)
                 temp_session_id ==
                     IF Truthy(cookie_header)
                     THEN CookieGet(ParseCookies(cookie_header), <<"temp_session_id">>)
                     ELSE None
             IN  IF ~Truthy(temp_session_id)
                 THEN CbReturned(c0, Response(400, <<"Missing temporary session cookie">>))
                 ELSE LET sk == session_sk(temp_session_id)
                          temp_item == get_item(st, TEMP_PK, sk)
                          c1 == [c0 EXCEPT !.temp_session_id = temp_session_id,
                                           !.ops = <<GetOp(TEMP_PK, sk, TRUE)>>]
                      IN  IF temp_item = EmptyDict
                          THEN CbReturned(c1, Response(400, <<"Session expired or invalid">>))
                          ELSE IF GetN(temp_item, "state") # state
                               THEN CbReturned(c1, Response(400, <<"Invalid state">>))
                          ELSE [c1 EXCEPT !.pc = "exchange",
                                          !.code_verifier = GetN(temp_item, "code_verifier")]

\* an except clause that logs the onboarding failure and carries on
AfterOnboarding_swallow(c) ==
    IF c.o.phase \in {"raised", "ok"} THEN [c EXCEPT !.pc = "session"] ELSE c

\* lines 326-330: what the callback does with the outcome of the onboarding
AfterOnboarding(c) ==
    IF c.o.phase = "raised"
    THEN CbReturned(c, Response(500, <<"Tenant onboarding failed">>))
    ELSE IF c.o.phase = "ok" THEN [c EXCEPT !.pc = "session"]
    ELSE c

\* a session stored under the id of the temp session it came from
SessionItem_temp_key(c) ==
    [pk |-> tenant_pk(c.tenant_id), sk |-> session_sk(c.temp_session_id),
     tenant_id |-> c.tenant_id, app_id |-> APP_ID, session_id |-> c.session_id,
     access_token |-> c.token_resp.access_token, id_token |-> c.id_token,
     refresh_token |-> GetN(c.token_resp, "refresh_token"),
     expires_at |-> c.expires_at, type |-> <<"session">>]

\* lines 332-345
SessionItem(c) ==
    [pk |-> tenant_pk(c.tenant_id), sk |-> session_sk(c.session_id),
     tenant_id |-> c.tenant_id, app_id |-> APP_ID, session_id |-> c.session_id,
     access_token |-> c.token_resp.access_token, id_token |-> c.id_token,
     refresh_token |-> GetN(c.token_resp, "refresh_token"),
     expires_at |-> c.expires_at, type |-> <<"session">>]

\* lines 347-357
CallbackResponse(c) ==
    LET cookie == SessionCookie(Composite(Str(c.tenant_id), c.session_id))
                      \o CookieAttrs(c.expires_in)
        expire_temp == <<"temp_session_id", "=">> \o CookieAttrs(0)
    IN  [statusCode |-> 302,
         headers |-> [Location |-> <<"/">>, SetCookie |-> cookie],
         multiValueHeaders |-> <<cookie, expire_temp>>,
         body |-> EmptyStr]

\* every store and network operation of the invocation, in order
CbOps(c) == c.ops \o c.o.ops \o c.post

DeleteOp(pk, sk) == [op |-> "delete", pk |-> pk, sk |-> sk]

\* the request of the browser returning from the IdP
CbEvents ==
    { [queryStringParameters |-> [code |-> <<"c1">>, state |-> StateOf(n)],
       headers |-> <<[name |-> "Cookie", value |-> TempCookie(Uuid(n))]>>] : n \in 1..MaxIds }
    \cup
    { [queryStringParameters |-> [code |-> <<"c1">>, state |-> <<"forged">>],
       headers |-> <<[name |-> "Cookie", value |-> TempCookie(Uuid(1))]>>],
      [queryStringParameters |-> [state |-> StateOf(1)],
       headers |-> <<[name |-> "Cookie", value |-> TempCookie(Uuid(1))]>>],
      [queryStringParameters |-> [code |-> <<"c1">>],
       headers |-> <<[name |-> "Cookie", value |-> TempCookie(Uuid(1))]>>],
      [queryStringParameters |-> Null,
       headers |-> <<[name |-> "Cookie", value |-> TempCookie(Uuid(1))]>>],
      [queryStringParameters |-> [code |-> <<"c1">>, state |-> StateOf(1)], headers |-> <<>>],
      [queryStringParameters |-> [code |-> <<"c1">>, state |-> StateOf(1)],
       headers |-> <<[name |-> "Cookie", value |-> TempCookie(<<"none">>)]>>] }

\* what the token endpoint answers to an authorization_code grant
CodeResponses ==
    { [error |-> <<"HTTPError">>],
      [access_token |-> <<"at0">>, id_token |-> Jwt("pA"), refresh_token |-> <<"rt0">>,
       expires_in |-> 1],
      [access_token |-> <<"at0">>, id_token |-> Jwt("pB")],
      [access_token |-> <<"at0">>, id_token |-> Jwt("pTA"), expires_in |-> 1],
      [access_token |-> Jwt("pA")],          \* no id_token; the access token carries a claim
      [id_token |-> Jwt("pA")] }

\* callback lines 256-286
CbRequest(p) ==
    /\ cb[p].pc = "idle"
    /\ \E event \in CbEvents : cb' = [cb EXCEPT ![p] = callback_validate(event, store)]
    /\ UNCHANGED <<store, now, authz, onb, lg, nextId>>

\* an exchange without its try/except: whatever came back is the token response
CbExchange_ignoring_failure(p) ==
    /\ cb[p].pc = "exchange"
    /\ \E resp \in CodeResponses :
           cb' = [cb EXCEPT ![p] =
                     [@ EXCEPT !.ops = @ \o <<SecretOp, TokenOp("authorization_code", resp)>>,
                               !.pc = "delete", !.token_resp = resp]]
    /\ UNCHANGED <<store, now, authz, onb, lg, nextId>>

\* lines 291-298: the form the callback posts to the token endpoint
exchange_data(code, code_verifier) ==
    [client_id |-> <<"client">>, scope |-> <<"openid profile email">>, code |-> code,
     redirect_uri |-> <<"redirect">>, grant_type |-> <<"authorization_code">>,
     code_verifier |-> code_verifier]

\* the POST of lines 302-308 with its form and its answer
ExchangeOp(data, resp) == Merge(TokenOp("authorization_code", resp), [data |-> data])

\* callback lines 288-311: the authorization_code grant
CbExchange(p) ==
    /\ cb[p].pc = "exchange"
    /\ \E resp \in CodeResponses :
           LET data == exchange_data(cb[p].event.queryStringParameters.code,
                                     cb[p].code_verifier)
               c == [cb[p] EXCEPT !.ops = @ \o <<SecretOp, ExchangeOp(data, resp)>>]
           IN  IF "error" \in DOMAIN resp
               THEN cb' = [cb EXCEPT ![p] =
                              CbReturned(c, Response(500, <<"Token exchange failed">>))]
               ELSE cb' = [cb EXCEPT ![p] = [c EXCEPT !.pc = "delete", !.token_resp = resp]]
    /\ UNCHANGED <<store, now, authz, onb, lg, nextId>>

\* a callback that leaves the temp session where it is
CbDelete_keeping_temp(p) ==
    /\ cb[p].pc = "delete"
    /\ nextId <= MaxIds
    /\ LET c == cb[p]
           expires_in == Get(c.token_resp, "expires_in", DEFAULT_EXPIRES_IN)
           tenant_id == callback_tenant(c.token_resp)
       IN  cb' = [cb EXCEPT ![p] =
                     [c EXCEPT !.pc = "onboard",
                               !.session_id = Uuid(nextId),
                               !.expires_in = expires_in,
                               !.expires_at = now + expires_in,
                               !.id_token = GetN(c.token_resp, "id_token"),
                               !.tenant_id = tenant_id,
                               !.o = ensure_tenant_onboarding(tenant_id, now)]]
    /\ nextId' = nextId + 1
    /\ UNCHANGED <<store, now, authz, onb, lg>>

\* callback lines 313-324 and ensure_tenant_onboarding lines 129-131
CbDelete(p) ==
    /\ cb[p].pc = "delete"
    /\ nextId <= MaxIds
    /\ LET c == cb[p]
           sk == session_sk(c.temp_session_id)
           expires_in == Get(c.token_resp, "expires_in", DEFAULT_EXPIRES_IN)
           tenant_id == callback_tenant(c.token_resp)
       IN  /\ store' = delete_item(store, TEMP_PK, sk)
           /\ cb' = [cb EXCEPT ![p] =
                        [c EXCEPT !.pc = "onboard",
                                  !.ops = Append(@, DeleteOp(TEMP_PK, sk)),
                                  !.session_id = Uuid(nextId),
                                  !.expires_in = expires_in,
                                  !.expires_at = now + expires_in,
                                  !.id_token = GetN(c.token_resp, "id_token"),
                                  !.tenant_id = tenant_id,
                                  !.o = ensure_tenant_onboarding(tenant_id, now)]]
    /\ nextId' = nextId + 1
    /\ UNCHANGED <<now, authz, onb, lg>>

\* put_item_if_absent lines 105-111, called from the callback
CbOnboardPut(p) ==
    /\ cb[p].pc = "onboard" /\ cb[p].o.phase = "put"
    /\ cb' = [cb EXCEPT ![p] =
                 AfterOnboarding([cb[p] EXCEPT !.o = put_item_if_absent(cb[p].o, store).o])]
    /\ store' = put_item_if_absent(cb[p].o, store).st
    /\ UNCHANGED <<now, authz, onb, lg, nextId>>

CbOnboardPutError(p) ==
    /\ cb[p].pc = "onboard" /\ cb[p].o.phase = "put"
    /\ cb' = [cb EXCEPT ![p] =
                 AfterOnboarding([cb[p] EXCEPT !.o = put_item_if_absent_error(cb[p].o)])]
    /\ UNCHANGED <<store, now, authz, onb, lg, nextId>>

\* put_item_if_absent lines 113-124, called from the callback
CbOnboardVerify(p) ==
    /\ cb[p].pc = "onboard" /\ cb[p].o.phase = "get"
    /\ cb' = [cb EXCEPT ![p] =
                 AfterOnboarding([cb[p] EXCEPT !.o = verify_existing(cb[p].o, store)])]
    /\ UNCHANGED <<store, now, authz, onb, lg, nextId>>

CbOnboardVerifyError(p) ==
    /\ cb[p].pc = "onboard" /\ cb[p].o.phase = "get"
    /\ cb' = [cb EXCEPT ![p] =
                 AfterOnboarding([cb[p] EXCEPT !.o = verify_existing_error(cb[p].o)])]
    /\ UNCHANGED <<store, now, authz, onb, lg, nextId>>

\* callback lines 332-357: the session put and the redirect
CbSession(p) ==
    /\ cb[p].pc = "session"
    /\ LET c == cb[p]
       IN  IF "access_token" \notin DOMAIN c.token_resp
           THEN /\ cb' = [cb EXCEPT ![p] = CbRaised(c)]      \* token_resp["access_token"]
                /\ store' = store
           ELSE /\ store' = put_item(store, SessionItem(c))
                /\ cb' = [cb EXCEPT ![p] =
                             CbReturned([c EXCEPT !.post =
                                 <<PutOp(SessionItem(c).pk, SessionItem(c).sk, "put")>>],
                                 CallbackResponse(c))]
    /\ UNCHANGED <<now, authz, onb, lg, nextId>>

CbReturn(p) ==
    /\ cb[p].pc = "done"
    /\ cb' = [cb EXCEPT ![p] = CbIdle]
    /\ UNCHANGED <<store, now, authz, onb, lg, nextId>>

\* the cleanup outside this program (TTL, an operator) removes an item
ExternalDelete ==
    /\ \E i \in store : store' = store \ {i}
    /\ UNCHANGED <<now, authz, cb, onb, lg, nextId>>

(***************************************************************************)
(* SpecCallback: a callback for the temp session of an earlier login, over *)
(* a tenant in any onboarding state, with store errors and outside cleanup.*)
(***************************************************************************)
\* when the login of the temp session ran: just now, or so long ago that the
\* record has outlived its expires_at and waits for the cleanup
LoginTimes == {Now0, Now0 - TEMP_TTL - 1}

InitCallback ==
    /\ \E m \in Earlier(TA, 1), p1 \in Earlier(TA, 2), p2 \in Earlier(TA, 3),
          t \in LoginTimes :
           store = {TempItem(1, t)} \cup m \cup p1 \cup p2
    /\ now = Now0
    /\ authz = <<>>
    /\ cb = [p \in {1} |-> CbIdle]
    /\ onb = <<>>
    /\ lg = <<>>
    /\ nextId = 2

NextCallback ==
    \/ \E p \in DOMAIN cb : CbRequest(p)
    \/ \E p \in DOMAIN cb : CbExchange(p)
    \/ \E p \in DOMAIN cb : CbDelete(p)
    \/ \E p \in DOMAIN cb : CbOnboardPut(p)
    \/ \E p \in DOMAIN cb : CbOnboardPutError(p)
    \/ \E p \in DOMAIN cb : CbOnboardVerify(p)
    \/ \E p \in DOMAIN cb : CbOnboardVerifyError(p)
    \/ \E p \in DOMAIN cb : CbSession(p)
    \/ \E p \in DOMAIN cb : CbReturn(p)
    \/ ExternalDelete
    \/ Tick

SpecCallback == InitCallback /\ [][NextCallback]_vars

(***************************************************************************)
(* SpecCbRace: concurrent callbacks that present the cookie and the state  *)
(* of one temp session (a doubled request, a replayed redirect).  The      *)
(* lookup of line 275 and the delete of line 314 are two store operations. *)
(***************************************************************************)
\* every callback of the race is the redirect of the login that drew id 1
CbRaceEvents ==
    { [queryStringParameters |-> [code |-> <<"c1">>, state |-> StateOf(1)],
       headers |-> <<[name |-> "Cookie", value |-> TempCookie(Uuid(1))]>>] }

\* callback lines 256-286 for such a request
CbRaceRequest(p) ==
    /\ cb[p].pc = "idle"
    /\ \E event \in CbRaceEvents : cb' = [cb EXCEPT ![p] = callback_validate(event, store)]
    /\ UNCHANGED <<store, now, authz, onb, lg, nextId>>

InitCbRace ==
    /\ store = {TempItem(1, Now0)}
    /\ now = Now0
    /\ authz = <<>>
    /\ cb = [p \in 1..MaxCb |-> CbIdle]
    /\ onb = <<>>
    /\ lg = <<>>
    /\ nextId = 2

\* a callback that has its response returns before anything else happens:
\* its return touches nothing the other callbacks see
NoCbDone == \A p \in DOMAIN cb : cb[p].pc # "done"

NextCbRace ==
    \/ \E p \in DOMAIN cb : NoCbDone /\ CbRaceRequest(p)
    \/ \E p \in DOMAIN cb : NoCbDone /\ CbExchange(p)
    \/ \E p \in DOMAIN cb : NoCbDone /\ CbDelete(p)
    \/ \E p \in DOMAIN cb : NoCbDone /\ CbOnboardPut(p)
    \/ \E p \in DOMAIN cb : NoCbDone /\ CbOnboardVerify(p)
    \/ \E p \in DOMAIN cb : NoCbDone /\ CbSession(p)
    \/ \E p \in DOMAIN cb : CbReturn(p)

SpecCbRace == InitCbRace /\ [][NextCbRace]_vars

(***************************************************************************)
(* SpecCleanup: the Authorizer invocations of SpecRefresh while the        *)
(* cleanup outside the program (TTL, an operator) may remove the session.  *)
(***************************************************************************)
NextCleanup ==
    \/ \E p \in DOMAIN authz : NoneDone /\ AuthzRaceRequest(p)
    \/ \E p \in DOMAIN authz : NoneDone /\ AuthzRefreshExchange(p)
    \/ \E p \in DOMAIN authz : NoneDone /\ AuthzRefreshUpdate(p)
    \/ \E p \in DOMAIN authz : NoneDone /\ AuthzRefreshUpdateFault(p)
    \/ \E p \in DOMAIN authz : AuthzReturn(p)
    \/ NoneDone /\ ExternalDelete
    \/ NoneDone /\ Tick

SpecCleanup == InitRefresh /\ [][NextCleanup]_vars

(***************************************************************************)
(* Spec: the whole broker from an empty table - logins, callbacks and      *)
(* authorizer invocations one after the other, with store errors and no    *)
(* outside cleanup.  (The races have specifications of their own.)         *)
(***************************************************************************)
Init ==
    /\ store = {}
    /\ now = Now0
    /\ authz = [p \in {1} |-> AuthzIdle]
    /\ cb = [p \in {1} |-> CbIdle]
    /\ onb = <<>>
    /\ lg = [p \in {1} |-> LoginIdle]
    /\ nextId = 1

\* no invocation is running
Quiet ==
    /\ \A p \in DOMAIN lg : lg[p].pc = "idle"
    /\ \A p \in DOMAIN cb : cb[p].pc = "idle"
    /\ \A p \in DOMAIN authz : authz[p].pc = "idle"

Next ==
    \/ \E p \in DOMAIN lg : Quiet /\ Login(p)
    \/ \E p \in DOMAIN lg : Quiet /\ LoginFault(p)
    \/ \E p \in DOMAIN lg : LoginReturn(p)
    \/ \E p \in DOMAIN cb : Quiet /\ CbRequest(p)
    \/ \E p \in DOMAIN cb : CbExchange(p)
    \/ \E p \in DOMAIN cb : CbDelete(p)
    \/ \E p \in DOMAIN cb : CbOnboardPut(p)
    \/ \E p \in DOMAIN cb : CbOnboardPutError(p)
    \/ \E p \in DOMAIN cb : CbOnboardVerify(p)
    \/ \E p \in DOMAIN cb : CbOnboardVerifyError(p)
    \/ \E p \in DOMAIN cb : CbSession(p)
    \/ \E p \in DOMAIN cb : CbReturn(p)
    \/ \E p \in DOMAIN authz : Quiet /\ AuthzSessionRequest(p)
    \/ \E p \in DOMAIN authz : Quiet /\ AuthzSessionRequestFault(p)
    \/ \E p \in DOMAIN authz : AuthzRefreshExchange(p)
    \/ \E p \in DOMAIN authz : AuthzRefreshUpdate(p)
    \/ \E p \in DOMAIN authz : AuthzRefreshUpdateFault(p)
    \/ \E p \in DOMAIN authz : AuthzReturn(p)
    \/ Tick

Spec == Init /\ [][Next]_vars

(***************************************************************************)
(* The PKCE pair (auth_handler.generate_pkce_pair), character by           *)
(* character.  SHA-256 itself is stood in for by a fixed function from     *)
(* byte strings to 32 bytes; the encodings around it are computed.         *)
(***************************************************************************)
NBytes == 32                   \* secrets.token_urlsafe(32); the size of a SHA-256 digest
MaxSeed == 15                  \* the random byte strings drawn: slopes 0..MaxSeed

AsciiUpper == <<"A", "B", "C", "D", "E", "F", "G", "H", "I", "J", "K", "L", "M",
                "N", "O", "P", "Q", "R", "S", "T", "U", "V", "W", "X", "Y", "Z">>
AsciiLower == <<"a", "b", "c", "d", "e", "f", "g", "h", "i", "j", "k", "l", "m",
                "n", "o", "p", "q", "r", "s", "t", "u", "v", "w", "x", "y", "z">>
AsciiDigits == <<"0", "1", "2", "3", "4", "5", "6", "7", "8", "9">>

\* the alphabet of base64.b64encode
StandardAlphabet == AsciiUpper \o AsciiLower \o AsciiDigits \o <<"+", "/">>

\* the alphabet of base64.urlsafe_b64encode
UrlSafeAlphabet == AsciiUpper \o AsciiLower \o AsciiDigits \o <<"-", "_">>

\* base64.urlsafe_b64encode(bytes): three bytes give four characters, and a
\* last group of one or two bytes is padded with '='
RECURSIVE urlsafe_b64encode(_)
urlsafe_b64encode(bytes) ==
    IF bytes = <<>> THEN <<>>
    ELSE IF Len(bytes) = 1
    THEN <<UrlSafeAlphabet[(bytes[1] \div 4) + 1],
           UrlSafeAlphabet[(bytes[1] % 4) * 16 + 1], "=", "=">>
    ELSE IF Len(bytes) = 2
    THEN <<UrlSafeAlphabet[(bytes[1] \div 4) + 1],
           UrlSafeAlphabet[(bytes[1] % 4) * 16 + (bytes[2] \div 16) + 1],
           UrlSafeAlphabet[(bytes[2] % 16) * 4 + 1], "=">>
    ELSE <<UrlSafeAlphabet[(bytes[1] \div 4) + 1],
           UrlSafeAlphabet[(bytes[1] % 4) * 16 + (bytes[2] \div 16) + 1],
           UrlSafeAlphabet[(bytes[2] % 16) * 4 + (bytes[3] \div 64) + 1],
           UrlSafeAlphabet[(bytes[3] % 64) + 1]>>
         \o urlsafe_b64encode(SubSeq(bytes, 4, Len(bytes)))

\* s.rstrip(ch)
RECURSIVE RStrip(_, _)
RStrip(s, ch) ==
    IF s # <<>> /\ s[Len(s)] = ch THEN RStrip(SubSeq(s, 1, Len(s) - 1), ch) ELSE s

\* s.replace(ch, "")
Remove(s, ch) == SelectSeq(s, LAMBDA c : c # ch)

\* secrets.token_urlsafe(nbytes), given the bytes that token_bytes drew
token_urlsafe(random) == RStrip(urlsafe_b64encode(random), "=")

\* ord(c) for the characters of a token
Ord(c) ==
    LET i == CHOOSE k \in 1..64 : UrlSafeAlphabet[k] = c
    IN  IF i <= 26 THEN 64 + i
        ELSE IF i <= 52 THEN 96 + (i - 26)
        ELSE IF i <= 62 THEN 47 + (i - 52)
        ELSE IF i = 63 THEN 45 ELSE 95

\* text.encode("ascii")
Ascii(text) == [i \in 1..Len(text) |-> Ord(text[i])]

RECURSIVE Absorb(_, _)
Absorb(bytes, h) ==
    IF bytes = <<>> THEN h ELSE Absorb(Tail(bytes), (h * 31 + Head(bytes)) % 65521)

\* hashlib.sha256(bytes).digest(): NBytes bytes that depend on the input only
Sha256(bytes) ==
    LET h == Absorb(bytes, 1)
    IN  [i \in 1..NBytes |-> (h * i + 7 * i * i + (h \div i)) % 256]

\* generate_pkce_pair lines 75-78
generate_pkce_pair(random) ==
    LET verifier == token_urlsafe(random)
        challenge_hash == Sha256(Ascii(verifier))
        challenge == Remove(urlsafe_b64encode(challenge_hash), "=")
    IN  [verifier |-> verifier, challenge |-> challenge]

\* what secrets.token_bytes may draw: NBytes bytes
RandomBytes(a, b) == [i \in 1..NBytes |-> (a * i + b) % 256]

SeedOffsets == {0, 62, 63, 85, 128, 170, 251, 255}

PkceIdle == [pc |-> "idle", verifier |-> EmptyStr, challenge |-> EmptyStr]

GeneratePkcePair(p) ==
    /\ lg[p].pc = "idle"
    /\ \E a \in 0..MaxSeed, b \in SeedOffsets :
           LET pair == generate_pkce_pair(RandomBytes(a, b))
           IN  lg' = [lg EXCEPT ![p] = [pc |-> "done", verifier |-> pair.verifier,
                                        challenge |-> pair.challenge]]
    /\ UNCHANGED <<store, now, authz, cb, onb, nextId>>

PkceReturn(p) ==
    /\ lg[p].pc = "done"
    /\ lg' = [lg EXCEPT ![p] = PkceIdle]
    /\ UNCHANGED <<store, now, authz, cb, onb, nextId>>

InitPkce ==
    /\ store = {}
    /\ now = Now0
    /\ authz = <<>>
    /\ cb = <<>>
    /\ onb = <<>>
    /\ lg = [p \in {1} |-> PkceIdle]
    /\ nextId = 1

NextPkce ==
    \/ \E p \in DOMAIN lg : GeneratePkcePair(p)
    \/ \E p \in DOMAIN lg : PkceReturn(p)

SpecPkce == InitPkce /\ [][NextPkce]_vars

(***************************************************************************)
(* Properties of the Authorizer, checked under SpecAuthz.                  *)
(***************************************************************************)
AuthzDone(p) == authz[p].pc = "done" /\ authz[p].result = "policy"

Allowed(p) == AuthzDone(p) /\ authz[p].policy.Effect = "Allow"

Denied(p) == AuthzDone(p) /\ authz[p].policy.Effect = "Deny"

\* the event whose Cookie header is exactly session_id=<tenant>:<session>
ForgedCookie(t, s) ==
    [headers |-> <<[name |-> "Cookie", value |-> <<"session_id", "=">> \o t \o <<":">> \o s]>>]

\* the tenant claim (tid, else tenant_id) that a stored token carries
ClaimOfToken(token) ==
    LET c == decode_jwt_claims(token)
    IN  Or(GetN(c, "tid"), GetN(c, "tenant_id"))

\* C1: a policy whose effect is Deny carries no context map; a context is
\* present only in an Allow policy.
C1_DenyCarriesNoContext ==
    \A p \in DOMAIN authz :
        AuthzDone(p) =>
            /\ authz[p].policy.Effect = "Deny" => "context" \notin DOMAIN authz[p].policy
            /\ "context" \in DOMAIN authz[p].policy => authz[p].policy.Effect = "Allow"

\* a Deny decided after the session record, with its access token, was read
C1_Witness ==
    \E p \in DOMAIN authz :
        /\ Denied(p)
        /\ "access_token" \in DOMAIN authz[p].item
        /\ "context" \notin DOMAIN authz[p].policy

\* the record's tenant claim: the id_token's, else the access_token's
RecordClaim(item) ==
    Or(ClaimOfToken(GetN(item, "id_token")), ClaimOfToken(GetN(item, "access_token")))

\* C2: Allow is returned only if a tenant claim can be decoded from the tokens
\* of the record that was read and that claim equals the cookie's tenant id; a
\* record whose claim differs, or that yields none, produces Deny.
C2_ClaimScope ==
    \A p \in DOMAIN authz :
        /\ Allowed(p) =>
               /\ Truthy(RecordClaim(authz[p].item))
               /\ RecordClaim(authz[p].item) = authz[p].tenant_id
               /\ \A t \in CookieTenants, s \in CookieSessions :
                      authz[p].event = ForgedCookie(t, s) => authz[p].tenant_id = t
        /\ ( /\ authz[p].pc = "done"
             /\ authz[p].item # EmptyDict
             /\ RecordClaim(authz[p].item) # authz[p].tenant_id )
           => Denied(p)

\* a Deny for a record whose stored fields all match but whose claim differs
C2_Witness ==
    \E p \in DOMAIN authz :
        /\ Denied(p)
        /\ authz[p].event = ForgedCookie(TA, S1)
        /\ authz[p].item # EmptyDict
        /\ GetN(authz[p].item, "tenant_id") = TA
        /\ GetN(authz[p].item, "app_id") = APP_ID
        /\ GetN(authz[p].item, "session_id") = S1
        /\ RecordClaim(authz[p].item) = TB

\* C3: a request whose cookie is session_id=<t>:<s> while the store holds no
\* record under (APP#<app>#TENANT#<t>, SESSION#<s>) ends in Deny after exactly
\* one store lookup, of that key, with no write and no token-endpoint call.
C3_ForgedCookieDenied ==
    [][\A p \in DOMAIN authz, t \in CookieTenants, s \in CookieSessions :
          ( /\ authz[p].pc = "idle"
            /\ authz'[p].pc # "idle"
            /\ authz'[p].event = ForgedCookie(t, s)
            /\ authz'[p].result # "raised"
            /\ ~\E i \in store : /\ i.pk = <<"APP#">> \o APP_ID \o <<"#TENANT#">> \o t
                                 /\ i.sk = <<"SESSION#">> \o s )
          => /\ authz'[p].pc = "done"
             /\ authz'[p].policy.Effect = "Deny"
             /\ Len(authz'[p].ops) = 1
             /\ authz'[p].ops[1].op = "get"
             /\ authz'[p].ops[1].pk = <<"APP#">> \o APP_ID \o <<"#TENANT#">> \o t
             /\ authz'[p].ops[1].sk = <<"SESSION#">> \o s
             /\ store' = store]_vars

\* tenant B's cookie names a session id that exists only under tenant A
C3_Witness ==
    \E p \in DOMAIN authz :
        /\ Denied(p)
        /\ authz[p].event = ForgedCookie(TB, S1)
        /\ \E i \in store : i.pk = tenant_pk(TA) /\ i.sk = session_sk(S1)
        /\ Len(authz[p].ops) = 1

\* the events without a usable session cookie
MalformedEvents ==
    { [headers |-> <<>>],
      [headers |-> <<[name |-> "Host", value |-> <<"h">>]>>],
      [headers |-> <<[name |-> "Cookie", value |-> <<>>]>>],
      [headers |-> <<[name |-> "Cookie", value |-> <<"temp_session_id", "=", "1">>]>>],
      [headers |-> <<[name |-> "Cookie", value |-> <<"session_id">>]>>],
      [headers |-> <<[name |-> "Cookie", value |-> <<"session_id", "=">>]>>],
      [headers |-> <<[name |-> "Cookie", value |-> <<"session_id", "=", "A", "1">>]>>] }

C5_Original ==
    \A p \in DOMAIN authz :
        Allowed(p) =>
            /\ "tenant_id" \in DOMAIN authz[p].item
            /\ authz[p].item.tenant_id = authz[p].tenant_id
            /\ "app_id" \in DOMAIN authz[p].item
            /\ authz[p].item.app_id = APP_ID
            /\ "session_id" \in DOMAIN authz[p].item
            /\ authz[p].item.session_id = authz[p].session_id

\* C5 amended: Allow only if each of tenant_id, app_id, session_id that the
\* record carries equals the cookie tenant, the configured app id and the
\* cookie session id; a field the record does not carry is not checked.
C5_StoredFieldCrossCheck ==
    \A p \in DOMAIN authz :
        Allowed(p) =>
            /\ "tenant_id" \in DOMAIN authz[p].item
                   => authz[p].item.tenant_id = authz[p].tenant_id
            /\ "app_id" \in DOMAIN authz[p].item
                   => authz[p].item.app_id = APP_ID
            /\ "session_id" \in DOMAIN authz[p].item
                   => authz[p].item.session_id = authz[p].session_id

\* a Deny that only the app_id field explains: claim and expiry are fine
C5_Witness ==
    \E p \in DOMAIN authz :
        /\ Denied(p)
        /\ authz[p].item # EmptyDict
        /\ GetN(authz[p].item, "app_id") = OTHER_APP
        /\ GetN(authz[p].item, "tenant_id") = authz[p].tenant_id
        /\ GetN(authz[p].item, "session_id") = authz[p].session_id
        /\ ClaimOfToken(GetN(authz[p].item, "id_token")) = authz[p].tenant_id
        /\ authz[p].item.expires_at >= authz[p].t0 + REFRESH_WINDOW

RefreshSucceeded(p) ==
    \E i \in 1..Len(authz[p].ops) :
        /\ authz[p].ops[i].op = "token"
        /\ authz[p].ops[i].grant = "refresh_token"
        /\ "error" \notin DOMAIN authz[p].ops[i].resp
        /\ "access_token" \in DOMAIN authz[p].ops[i].resp

\* C6: for a record already expired when the request arrives, Allow is
\* returned only if the record has a refresh token and the refresh exchange
\* of this invocation succeeded.
C6_ExpiredNeedsRefresh ==
    \A p \in DOMAIN authz :
        ( /\ Allowed(p)
          /\ authz[p].item.expires_at < authz[p].t0 )
        => /\ Truthy(GetN(authz[p].item, "refresh_token"))
           /\ RefreshSucceeded(p)

\* an expired session allowed again after a successful refresh
C6_Witness ==
    \E p \in DOMAIN authz :
        /\ Allowed(p)
        /\ authz[p].item.expires_at < authz[p].t0
        /\ RefreshSucceeded(p)
        /\ authz[p].policy.context.access_token = <<"at1">>

(***************************************************************************)
(* Properties of onboarding, checked under SpecOnb.                        *)
(***************************************************************************)
\* the sort keys of the records of a tenant, in the order of the writes
RecordSks == [k \in 1..NumRecords |-> Records(TA, 0)[k].item.sk]

\* the records of each tenant as an onboarding at time 0 writes them
OnboardedItems ==
    [tenant_id \in OnbTenants |-> {Records(tenant_id, 0)[k].item : k \in 1..NumRecords}]

IsTenantRecord(i, tenant_id) ==
    /\ i.pk = <<"APP#">> \o APP_ID \o <<"#TENANT#">> \o tenant_id
    /\ \E k \in 1..NumRecords : i.sk = RecordSks[k]

TenantRecords(tenant_id) == {i \in store : IsTenantRecord(i, tenant_id)}

\* the stored record agrees with what an onboarding of the tenant writes, in
\* every field but the two timestamps
AsOnboarded(i, tenant_id) ==
    /\ tenant_id \in OnbTenants
    /\ [i EXCEPT !.created_at = 0, !.updated_at = 0] \in OnboardedItems[tenant_id]

NoDrift(tenant_id) == \A i \in TenantRecords(tenant_id) : AsOnboarded(i, tenant_id)

Finished(p) == onb[p].phase \in {"ok", "raised"}

ModelTimes == (Now0 - 1)..(Now0 + MaxTick)

\* the put that run p has just issued, if this step is one
JustPut(p) ==
    /\ Len(onb'[p].ops) = Len(onb[p].ops) + 1
    /\ onb'[p].ops[Len(onb'[p].ops)].op = "put"

LastOp(p) == onb'[p].ops[Len(onb'[p].ops)]

\* C9 as claimed: a run over a tenant whose records exist in whole or in part
\* does not raise and ends in the store state of a single complete onboarding.
C9_Original ==
    \A p \in DOMAIN onb :
        (Finished(p) /\ NoDrift(onb[p].tenant_id)) =>
            /\ onb[p].phase = "ok"
            /\ \E t \in ModelTimes :
                   TenantRecords(onb[p].tenant_id) =
                       {Records(onb[p].tenant_id, t)[k].item : k \in 1..NumRecords}

C9_Final ==
    \A p \in DOMAIN onb :
        (Finished(p) /\ NoDrift(onb[p].tenant_id)) =>
            /\ onb[p].phase = "ok"
            /\ onb[p].created + onb[p].reused = NumRecords
            /\ {[i EXCEPT !.created_at = 0, !.updated_at = 0] :
                    i \in TenantRecords(onb[p].tenant_id)}
                 = {Records(onb[p].tenant_id, 0)[k].item : k \in 1..NumRecords}
            /\ Cardinality(TenantRecords(onb[p].tenant_id)) = NumRecords

C9_Step ==
    /\ \A i \in store : i \in store'
    /\ \A p \in DOMAIN onb :
           JustPut(p) =>
               LET present == \E i \in store : i.pk = LastOp(p).pk /\ i.sk = LastOp(p).sk
               IN  /\ present => (LastOp(p).outcome = "conflict" /\ store' = store)
                   /\ ~present =>
                          /\ LastOp(p).outcome = "created"
                          /\ \E i \in store' :
                                 /\ store' = store \cup {i}
                                 /\ i.pk = LastOp(p).pk /\ i.sk = LastOp(p).sk
                                 /\ i.created_at = onb[p].t
                                 /\ AsOnboarded(i, onb[p].tenant_id)

\* C9 amended: a run over a tenant whose records exist in whole or in part,
\* with matching invariant fields, does not raise, leaves every stored record
\* unchanged, creates exactly the missing records, and ends with the records
\* of a single complete onboarding in every field except the created_at and
\* updated_at timestamps, which are those of the run that created each record.
C9_RetrySafeOnboarding == []C9_Final /\ [][C9_Step]_vars

\* a run that reused an earlier record and created a missing one
C9_Witness ==
    \E p \in DOMAIN onb :
        /\ onb[p].phase = "ok"
        /\ onb[p].reused >= 1
        /\ onb[p].created >= 1
        /\ NoDrift(onb[p].tenant_id)
        /\ \E i \in TenantRecords(onb[p].tenant_id) : i.created_at = Now0 - 1

Created(p, tenant_id, sk) ==
    /\ onb[p].tenant_id = tenant_id
    /\ \E n \in 1..Len(onb[p].ops) :
           /\ onb[p].ops[n].op = "put"
           /\ onb[p].ops[n].sk = sk
           /\ onb[p].ops[n].outcome = "created"

\* every conflicting put of run p is followed by the read of the same key
VerifiesOnConflict(p) ==
    \A n \in 1..Len(onb[p].ops) :
        (onb[p].ops[n].op = "put" /\ onb[p].ops[n].outcome = "conflict") =>
            IF n = Len(onb[p].ops) THEN onb[p].phase = "get"
            ELSE /\ onb[p].ops[n + 1].op = "get"
                 /\ onb[p].ops[n + 1].pk = onb[p].ops[n].pk
                 /\ onb[p].ops[n + 1].sk = onb[p].ops[n].sk

\* C10: among concurrent runs for one tenant exactly one run's write wins for
\* each record, every losing run verifies the stored record and completes
\* without error, and the store ends with exactly one metadata record and one
\* record per baseline policy of the tenant.
C10_ConcurrentOnboarding ==
    /\ \A i \in store, j \in store : (i.pk = j.pk /\ i.sk = j.sk) => i = j
    /\ \A tenant_id \in OnbTenants :
           /\ \A i \in TenantRecords(tenant_id) :
                  Cardinality({p \in DOMAIN onb : Created(p, tenant_id, i.sk)})
                      = IF i.created_at >= Now0 THEN 1 ELSE 0
           /\ \A p \in DOMAIN onb : \A k \in 1..NumRecords :
                  Created(p, tenant_id, RecordSks[k]) =>
                      \E i \in TenantRecords(tenant_id) :
                          i.sk = RecordSks[k] /\ i.created_at = onb[p].t
    /\ \A p \in DOMAIN onb :
           /\ VerifiesOnConflict(p)
           /\ NoDrift(onb[p].tenant_id) => onb[p].phase # "raised"
           /\ (onb[p].phase = "ok" /\ NoDrift(onb[p].tenant_id)) =>
                  /\ Cardinality(TenantRecords(onb[p].tenant_id)) = NumRecords
                  /\ \A k \in 1..NumRecords :
                         \E i \in TenantRecords(onb[p].tenant_id) :
                             i.sk = RecordSks[k]

\* two runs of one tenant have raced: each won a record and lost another
C10_Witness ==
    \E p \in DOMAIN onb, q \in DOMAIN onb :
        /\ p # q
        /\ onb[p].phase = "ok" /\ onb[q].phase = "ok"
        /\ onb[p].tenant_id = onb[q].tenant_id
        /\ onb[p].created >= 1 /\ onb[p].reused >= 1
        /\ onb[q].created >= 1 /\ onb[q].reused >= 1
        /\ \A i \in TenantRecords(onb[p].tenant_id) : i.created_at >= Now0

(***************************************************************************)
(* Properties of the Callback.                                             *)
(***************************************************************************)
IsSessionPut(op) ==
    /\ op.op = "put"
    /\ op.sk[1] = "SESSION#"
    /\ op.pk # <<"APP#">> \o APP_ID \o <<"#TEMP">>

IsSessionItem(i) ==
    /\ i.sk[1] = "SESSION#"
    /\ i.pk # <<"APP#">> \o APP_ID \o <<"#TEMP">>

SessionPuts(c) == {n \in 1..Len(CbOps(c)) : IsSessionPut(CbOps(c)[n])}

\* C7 (SpecCallback): when ensure_tenant_onboarding raises - store error,
\* unreadable existing item or invariant mismatch, on whichever record - the
\* callback returns 500, the invocation writes no Permanent Session and the
\* response sets no cookie.
C7_OnboardingFailurePrecludesSession ==
    \A p \in DOMAIN cb :
        cb[p].o.phase = "raised" =>
            /\ cb[p].pc = "done"
            /\ cb[p].result = "response"
            /\ cb[p].resp.statusCode = 500
            /\ "headers" \notin DOMAIN cb[p].resp
            /\ "multiValueHeaders" \notin DOMAIN cb[p].resp
            /\ SessionPuts(cb[p]) = {}
            /\ ~\E i \in store :
                   IsSessionItem(i) /\ i.sk = session_sk(cb[p].session_id)

\* the onboarding of the callback failed on a policy record that an earlier
\* configuration had written differently
C7_Witness ==
    \E p \in DOMAIN cb :
        /\ cb[p].o.phase = "raised"
        /\ cb[p].o.error = "mismatch"
        /\ cb[p].o.idx > 1
        /\ cb[p].resp.statusCode = 500

OnboardingSks ==
    { <<"TENANT#META">>,
      <<"POLICY#BASELINE#", "tenant-isolation">>,
      <<"POLICY#BASELINE#", "session-partition-boundary">> }

\* C8 (Spec): a callback that writes a Permanent Session has issued the
\* conditional writes of the tenant's metadata record and of every baseline
\* policy record before the session write, and writes exactly one SESSION#
\* item under the tenant partition; in every store state a Permanent Session
\* of a tenant exists only if the tenant's metadata record and all its
\* baseline policy records exist.
C8_OnboardingPrecedesSession ==
    /\ \A p \in DOMAIN cb :
           /\ \A n \in SessionPuts(cb[p]) :
                  \A sk \in OnboardingSks :
                      \E m \in 1..(n - 1) :
                          /\ CbOps(cb[p])[m].op = "put"
                          /\ CbOps(cb[p])[m].pk = CbOps(cb[p])[n].pk
                          /\ CbOps(cb[p])[m].sk = sk
                          /\ CbOps(cb[p])[m].outcome \in {"created", "conflict"}
           /\ Cardinality(SessionPuts(cb[p])) <= 1
           /\ (cb[p].pc = "done" /\ cb[p].result = "response" /\ cb[p].resp.statusCode = 302)
                  => Cardinality(SessionPuts(cb[p])) = 1
    /\ \A i \in store :
           IsSessionItem(i) =>
               \A sk \in OnboardingSks : \E j \in store : j.pk = i.pk /\ j.sk = sk

\* the callback of a tenant's first login has onboarded it and issued a session
C8_Witness ==
    \E p \in DOMAIN cb :
        /\ cb[p].pc = "done"
        /\ cb[p].result = "response"
        /\ cb[p].resp.statusCode = 302
        /\ cb[p].o.created = NumRecords
        /\ \E i \in store : IsSessionItem(i) /\ i.session_id = cb[p].session_id

(***************************************************************************)
(* More properties of onboarding, checked under SpecOnb.                   *)
(***************************************************************************)
\* the record that run o is at, as the run would write it
RecordOf(o) == Records(o.tenant_id, o.t)[o.idx]

StoredAt(st, pk, sk) == {i \in st : i.pk = pk /\ i.sk = sk}

\* the stored record differs from the one to write in an invariant field
Mismatch(st, o) ==
    LET rec == RecordOf(o)
    IN  \E existing \in StoredAt(st, rec.item.pk, rec.item.sk) :
            \E field \in rec.invariant_fields :
                GetN(existing, field) # GetN(rec.item, field)

C11_Step ==
    /\ \A i \in store : i \in store'
    /\ \A i \in store : Cardinality(StoredAt(store', i.pk, i.sk)) = 1
    /\ \A p \in DOMAIN onb :
           /\ (onb[p].phase = "get" /\ onb'[p] # onb[p] /\ Mismatch(store, onb[p])) =>
                  /\ onb'[p].phase = "raised"
                  /\ onb'[p].error = "mismatch"
                  /\ onb'[p].created = onb[p].created
                  /\ store' = store
           /\ onb[p].phase = "raised" => onb'[p] = onb[p]

C11_Raised ==
    \A p \in DOMAIN onb :
        onb[p].phase = "raised" =>
            /\ onb[p].ops[Len(onb[p].ops)].op = "get"
            /\ onb[p].ops[Len(onb[p].ops)].sk = RecordSks[onb[p].idx]
            /\ Mismatch(store, onb[p])

\* C11 (SpecOnb): a stored tenant record is never changed by an onboarding
\* run; a run that finds a stored record whose invariant fields differ from
\* the ones it would write raises, leaves that record as it was, and issues
\* no operation after the mismatch.
C11_CreateOnceVerifyOnConflict == []C11_Raised /\ [][C11_Step]_vars

\* a run created the metadata record, then raised on a policy record that an
\* earlier configuration had written; that record is still as it was
C11_Witness ==
    \E p \in DOMAIN onb :
        /\ onb[p].phase = "raised"
        /\ onb[p].error = "mismatch"
        /\ onb[p].idx = 2
        /\ onb[p].created = 1
        /\ Drifted(Records(TA, Now0 - 1)[2].item) \in store
        /\ StoredAt(store, RecordOf(onb[p]).item.pk, Records(onb[p].tenant_id, 0)[3].item.sk) = {}

IsPut(x) == x.op = "put"

IsGet(x) == x.op = "get"

Puts(o) == SelectSeq(o.ops, IsPut)

Gets(o) == SelectSeq(o.ops, IsGet)

\* the sort keys in the order of the writes: metadata, then the policies in
\* configuration order
WriteOrder ==
    << <<"TENANT#META">>,
       <<"POLICY#BASELINE#", "tenant-isolation">>,
       <<"POLICY#BASELINE#", "session-partition-boundary">> >>

\* C12 as claimed: every attempt issues exactly 1 + (number of policies) writes.
C12_Original ==
    \A p \in DOMAIN onb : Finished(p) => Len(Puts(onb[p])) = Len(WriteOrder)

\* C12 amended (SpecOnb): the conditional writes of an attempt are those of the
\* metadata record and then of the policies in configuration order, one each;
\* an attempt that completes has issued all 1 + (number of policies) of them,
\* an attempt that raises has issued them up to the record it failed on and
\* none after; a record is read only right after its conditional write failed
\* on the condition, at most once, and never when every write succeeded.
C12_OperationCount ==
    \A p \in DOMAIN onb :
        LET o == onb[p]
        IN  /\ Len(Puts(o)) <= Len(WriteOrder)
            /\ \A k \in 1..Len(Puts(o)) :
                   /\ Puts(o)[k].sk = WriteOrder[k]
                   /\ Puts(o)[k].pk = <<"APP#">> \o APP_ID \o <<"#TENANT#">> \o o.tenant_id
            /\ o.phase = "ok" => Len(Puts(o)) = Len(WriteOrder)
            /\ o.phase = "raised" => Len(Puts(o)) = o.idx
            /\ \A n \in 1..Len(o.ops) :
                   IsGet(o.ops[n]) =>
                       /\ n > 1
                       /\ IsPut(o.ops[n - 1])
                       /\ o.ops[n - 1].outcome = "conflict"
                       /\ o.ops[n - 1].sk = o.ops[n].sk
                       /\ o.ops[n - 1].pk = o.ops[n].pk
            /\ Len(Gets(o)) = Cardinality({k \in 1..Len(Puts(o)) : Puts(o)[k].outcome = "conflict"})
                   \/ (o.phase = "get" /\ Len(Gets(o)) + 1 =
                          Cardinality({k \in 1..Len(Puts(o)) : Puts(o)[k].outcome = "conflict"}))
            /\ o.created = Len(Puts(o)) => Len(Gets(o)) = 0

\* a completed attempt: three writes, one of them conflicting and followed by
\* its read
C12_Witness ==
    \E p \in DOMAIN onb :
        /\ onb[p].phase = "ok"
        /\ Len(Puts(onb[p])) = 3
        /\ Len(Gets(onb[p])) = 1
        /\ onb[p].created = 2

(***************************************************************************)
(* More properties of the Callback.                                        *)
(***************************************************************************)
\* the temp_session_id that the request's Cookie header carries, if any
TempIdOf(event) ==
    IF event.headers = <<>> THEN None
    ELSE SubSeq(event.headers[1].value, 3, Len(event.headers[1].value))

TempItemsOf(st, event) ==
    {i \in st : i.pk = <<"APP#">> \o APP_ID \o <<"#TEMP">>
                /\ i.sk = <<"SESSION#">> \o TempIdOf(event)}

\* the request's query string lacks code or state (or there is no query string)
MissingParameter(event) ==
    \/ "code" \notin DOMAIN event.queryStringParameters
    \/ "state" \notin DOMAIN event.queryStringParameters

MissingCookie(event) == event.headers = <<>>

\* the request fails one of the checks made before the exchange
FailsValidation(st, event) ==
    \/ MissingParameter(event)
    \/ MissingCookie(event)
    \/ TempItemsOf(st, event) = {}
    \/ \E i \in TempItemsOf(st, event) : i.state # event.queryStringParameters.state

\* process p takes the request step of a callback
CbRequestStep(p) == cb[p].pc = "idle" /\ cb'[p].pc # "idle"

C13_Step ==
    \A p \in DOMAIN cb :
        CbRequestStep(p) =>
            LET c == cb'[p]
            IN  /\ store' = store
                /\ FailsValidation(store, c.event) <=>
                       (c.pc = "done" /\ c.result = "response" /\ c.resp.statusCode = 400)
                /\ FailsValidation(store, c.event) =>
                       /\ \A n \in 1..Len(CbOps(c)) : CbOps(c)[n].op = "get"
                       /\ Len(CbOps(c)) <= 1
                       /\ (MissingParameter(c.event) \/ MissingCookie(c.event)) => CbOps(c) = <<>>
                       /\ "headers" \notin DOMAIN c.resp

C13_Rejected ==
    \A p \in DOMAIN cb :
        (cb[p].pc = "done" /\ cb[p].result = "response" /\ cb[p].resp.statusCode = 400) =>
            /\ \A n \in 1..Len(CbOps(cb[p])) : CbOps(cb[p])[n].op = "get"
            /\ cb[p].session_id = None

\* C13 (SpecCallback): a callback with code or state missing, with no
\* temp_session_id cookie, with a cookie naming no stored temp session, or with
\* a state other than the stored one returns 400; it leaves the store as it
\* was (the temp session stays), calls neither the secret store nor the token
\* endpoint, and does not read the store when a parameter or the cookie is
\* missing.  (Violated: a request without a query string raises instead.)
C13_ValidationFailureNoSideEffects == []C13_Rejected /\ [][C13_Step]_vars

\* the code exchange of the invocation failed
ExchangeFailed(c) ==
    \E n \in 1..Len(CbOps(c)) : CbOps(c)[n].op = "token" /\ ~CbOps(c)[n].ok

\* process p takes the exchange step of a callback
CbExchangeStep(p) == cb[p].pc = "exchange" /\ cb'[p].pc # "exchange"

C14_Failed ==
    \A p \in DOMAIN cb :
        ExchangeFailed(cb[p]) =>
            /\ cb[p].pc = "done"
            /\ cb[p].result = "response"
            /\ cb[p].resp.statusCode = 500
            /\ "headers" \notin DOMAIN cb[p].resp
            /\ "multiValueHeaders" \notin DOMAIN cb[p].resp
            /\ \A n \in 1..Len(CbOps(cb[p])) : CbOps(cb[p])[n].op \notin {"put", "update"}
            /\ cb[p].session_id = None

C14_Step ==
    \A p \in DOMAIN cb :
        (CbExchangeStep(p) /\ ExchangeFailed(cb'[p])) => store' = store

\* C14 (SpecCallback): when the authorization-code exchange fails, the
\* callback returns 500, writes no session record, no tenant metadata record
\* and no policy record, and sets no cookie.
C14_TokenEndpointFailure == []C14_Failed /\ [][C14_Step]_vars

\* a callback whose exchange failed with the tenant not onboarded yet: 500,
\* and the store holds no record of the tenant
C14_Witness ==
    \E p \in DOMAIN cb :
        /\ ExchangeFailed(cb[p])
        /\ cb[p].resp.statusCode = 500
        /\ cb[p].resp.body = <<"Token exchange failed">>
        /\ ~\E i \in store : i.pk # <<"APP#">> \o APP_ID \o <<"#TEMP">>

\* the token response gives the callback no tenant claim: no id_token, one that
\* does not decode, or one whose claims carry neither tid nor tenant_id
NoTenantClaim(token_resp) ==
    \/ "id_token" \notin DOMAIN token_resp
    \/ LET claims == decode_jwt_claims_handler(token_resp.id_token)
       IN  "tid" \notin DOMAIN claims /\ "tenant_id" \notin DOMAIN claims

\* the invocation has got its token response and gone past the claim extraction
PastClaimExtraction(c) == c.pc \in {"onboard", "session", "done"} /\ c.session_id # None

\* C15 (SpecCallback): when the token response has no id_token, or one that
\* does not decode, or one without a tenant claim, the callback returns 500,
\* issues no onboarding write, writes no session record under any tenant id
\* and sets no cookie.  (Violated: the callback goes on with the tenant id
\* "unknown".)
C15_MissingTenantClaimFatal ==
    \A p \in DOMAIN cb :
        (PastClaimExtraction(cb[p]) /\ NoTenantClaim(cb[p].token_resp)) =>
            /\ \A n \in 1..Len(CbOps(cb[p])) : CbOps(cb[p])[n].op # "put"
            /\ cb[p].pc = "done"
            /\ cb[p].result = "response"
            /\ cb[p].resp.statusCode = 500
            /\ "headers" \notin DOMAIN cb[p].resp

(***************************************************************************)
(* Properties of the whole broker, checked under Spec.                     *)
(***************************************************************************)
PartitionOf(tenant_id) == <<"APP#">> \o APP_ID \o <<"#TENANT#">> \o tenant_id

\* the claims of an id_token as the callback decodes them, {} without a token
IdTokenClaims(id_token) ==
    IF id_token = None THEN EmptyDict ELSE decode_jwt_claims_handler(id_token)

\* the step writes session record i: a callback's session put for the tenant
\* of its id_token, or a refresh of the record already stored under that key
WrittenByCallback(i) ==
    \E p \in DOMAIN cb :
        /\ cb[p].pc = "session" /\ cb'[p].pc = "done"
        /\ i.id_token = GetN(cb[p].token_resp, "id_token")
        /\ i.pk = PartitionOf(Get(IdTokenClaims(i.id_token), "tid", <<"unknown">>))

RefreshOf(i) ==
    \E j \in store :
        /\ j.pk = i.pk /\ j.sk = i.sk
        /\ j.id_token = i.id_token /\ j.tenant_id = i.tenant_id
        /\ \E p \in DOMAIN authz : authz[p].pc = "update" /\ authz[p].item = j

C16_Step ==
    \A i \in store' \ store : IsSessionItem(i) => (WrittenByCallback(i) \/ RefreshOf(i))

C16_Store ==
    \A i \in store :
        IsSessionItem(i) =>
            i.pk = PartitionOf(Get(IdTokenClaims(i.id_token), "tid", <<"unknown">>))

C16_Allow ==
    \A p \in DOMAIN authz :
        Allowed(p) =>
            LET a == authz[p]
            IN  /\ \A t \in CookieTenants \cup {<<"unknown">>}, s \in CookieSessions :
                       a.event = ForgedCookie(t, s) => (a.tenant_id = t /\ a.session_id = s)
                /\ a.ops[1].op = "get"
                /\ a.ops[1].pk = PartitionOf(a.tenant_id)
                /\ a.ops[1].sk = <<"SESSION#">> \o a.session_id
                /\ \A n \in 2..Len(a.ops) : a.ops[n].op # "get"
                /\ a.item.pk = PartitionOf(a.tenant_id)
                /\ a.item.sk = <<"SESSION#">> \o a.session_id
                /\ GetN(IdTokenClaims(a.item.id_token), "tid") = a.tenant_id
                /\ a.policy.context.tenant_id = a.tenant_id
                /\ a.policy.context.access_token \in {a.item.access_token, a.new_access_token}

\* C16 (Spec): after any sequence of logins, callbacks and authorizer
\* invocations, an authorizer invocation presenting the cookie <A>:<s> returns
\* Allow only if the one record it read is the one stored under tenant A's
\* partition for session s, and session records come into a partition only by
\* a callback whose id_token carries that tenant's claim; so no cookie naming
\* tenant A obtains an Allow backed by a record of another tenant's partition.
C16_TenantIsolation == [](C16_Allow /\ C16_Store) /\ [][C16_Step]_vars

\* tenant A's cookie is allowed while tenant B has a session too
C16_Witness ==
    \E p \in DOMAIN authz :
        /\ Allowed(p)
        /\ authz[p].tenant_id = TA
        /\ \E i \in store : IsSessionItem(i) /\ i.tenant_id = TB

\* the session cookie's name=value pair for a session record
CookieOf(i) == <<"session_id", "=">> \o i.tenant_id \o <<":">> \o i.session_id

IsPrefix(u, v) == Len(u) <= Len(v) /\ SubSeq(v, 1, Len(u)) = u

\* the fields of a session record agree with its key
KeyAgrees(i) ==
    /\ "tenant_id" \in DOMAIN i /\ "app_id" \in DOMAIN i /\ "session_id" \in DOMAIN i
    /\ i.pk = <<"APP#">> \o i.app_id \o <<"#TENANT#">> \o i.tenant_id
    /\ i.sk = <<"SESSION#">> \o i.session_id
    /\ i.app_id = APP_ID

C17_Store == \A i \in store : IsSessionItem(i) => KeyAgrees(i)

\* process p takes the session-put step of a callback and answers 302
CbSessionStep(p) ==
    /\ cb[p].pc = "session" /\ cb'[p].pc = "done"
    /\ cb'[p].result = "response"

C17_Step ==
    \A p \in DOMAIN cb :
        CbSessionStep(p) =>
            /\ cb'[p].resp.statusCode = 302
            /\ \E i \in store' \ store :
                   /\ IsSessionItem(i)
                   /\ KeyAgrees(i)
                   /\ store' = store \cup {i}
                   /\ IsPrefix(CookieOf(i) \o <<";">>, cb'[p].resp.headers.SetCookie)
                   /\ IsPrefix(CookieOf(i) \o <<";">>, cb'[p].resp.multiValueHeaders[1])

\* C17 (Spec): every session record the callback writes has tenant_id, app_id
\* and session_id fields equal to the values in its own key and to the
\* <tenantId>:<sessionId> of the cookie set by the same response, and every
\* stored session record agrees with its key in every reachable state, also
\* after refreshes.
C17_RecordKeyCookieAgree == []C17_Store /\ [][C17_Step]_vars

\* a session record that a refresh has rewritten
C17_Witness ==
    \E i \in store :
        /\ IsSessionItem(i)
        /\ i.access_token = <<"at1">>
        /\ KeyAgrees(i)
        /\ i.tenant_id = TA

(***************************************************************************)
(* More properties of the Authorizer, checked under SpecAuthz.             *)
(***************************************************************************)
\* the decoded claims that supply the record's tenant claim: the id_token's
\* if they carry one, else the access_token's
HintClaims(item) ==
    IF Truthy(ClaimOfToken(GetN(item, "id_token")))
    THEN decode_jwt_claims(GetN(item, "id_token"))
    ELSE decode_jwt_claims(GetN(item, "access_token"))

\* claims[k1] if it is there and not empty, else claims[k2], else ""
Hint(claims, k1, k2) ==
    IF k1 \in DOMAIN claims /\ Truthy(claims[k1]) THEN claims[k1]
    ELSE IF k2 \in DOMAIN claims /\ Truthy(claims[k2]) THEN claims[k2]
    ELSE EmptyStr

\* C18 (SpecAuthz): the context of an Allow has exactly access_token,
\* session_id, tenant_id, app_id, principal_sub and principal_email;
\* session_id and tenant_id are the two parts of the cookie, app_id is the
\* configured one, tenant_id is the tenant claim decoded from the stored
\* token, and the two hints are sub-else-oid and email-else-upn of the claims
\* that supplied that tenant claim.
C18_AllowContext ==
    \A p \in DOMAIN authz :
        Allowed(p) =>
            LET a == authz[p]
                ctx == a.policy.context
            IN  /\ DOMAIN ctx = {"access_token", "session_id", "tenant_id", "app_id",
                                 "principal_sub", "principal_email"}
                /\ \A t \in CookieTenants, s \in CookieSessions :
                       a.event = ForgedCookie(t, s) => (ctx.tenant_id = t /\ ctx.session_id = s)
                /\ ctx.session_id = a.session_id
                /\ ctx.tenant_id = a.tenant_id
                /\ ctx.app_id = <<"app">>
                /\ ctx.tenant_id = RecordClaim(a.item)
                /\ ctx.principal_sub = Hint(HintClaims(a.item), "sub", "oid")
                /\ ctx.principal_email = Hint(HintClaims(a.item), "email", "upn")
                /\ ctx.access_token \in {a.item.access_token, a.new_access_token}
                /\ a.policy.principalId = a.session_id

\* an Allow whose hints come from oid and upn
C18_Witness ==
    \E p \in DOMAIN authz :
        /\ Allowed(p)
        /\ authz[p].event = ForgedCookie(TA, S1)
        /\ authz[p].policy.context.principal_sub = <<"u4">>
        /\ authz[p].policy.context.principal_email = <<"e4">>

(***************************************************************************)
(* The life of a Temporary Auth Session, checked under Spec.               *)
(***************************************************************************)
IsTempItem(i) == i.pk = <<"APP#">> \o APP_ID \o <<"#TEMP">>

TempPresent(n) == \E i \in store : IsTempItem(i) /\ i.sk = <<"SESSION#", ToString(n)>>

\* a callback has consumed temp session n: it is past its delete
Consumed(n) ==
    \E p \in DOMAIN cb :
        /\ cb[p].temp_session_id = <<ToString(n)>>
        /\ cb[p].session_id # None

\* process p holds the read and the delete of the temp session of its cookie
ReadAndDeleted(c) ==
    /\ Len(c.ops) >= 2
    /\ c.ops[1].op = "get"
    /\ c.ops[1].pk = <<"APP#">> \o APP_ID \o <<"#TEMP">>
    /\ c.ops[1].sk = <<"SESSION#">> \o TempIdOf(c.event)
    /\ c.ops[Len(c.ops)].op = "delete"
    /\ c.ops[Len(c.ops)].pk = c.ops[1].pk
    /\ c.ops[Len(c.ops)].sk = c.ops[1].sk

C19_Step ==
    /\ nextId' >= nextId
    /\ \A i \in store \ store' :
           IsTempItem(i) =>
               \E p \in DOMAIN cb :
                   /\ cb[p].pc = "delete" /\ cb'[p].pc = "onboard"
                   /\ i.sk = <<"SESSION#">> \o TempIdOf(cb[p].event)
                   /\ ReadAndDeleted(cb'[p])
                   /\ store' = store \ {i}
    /\ \A i \in store' \ store :
           IF IsTempItem(i)
           THEN /\ \E p \in DOMAIN lg : lg[p].pc = "idle" /\ lg'[p].pc = "done"
                /\ i.sk = <<"SESSION#", ToString(nextId)>>
                /\ nextId' = nextId + 1
           ELSE \/ \E p \in DOMAIN cb :
                       cb[p].pc \in {"onboard", "session"} /\ ReadAndDeleted(cb[p])
                \/ RefreshOf(i)
    /\ \A p \in DOMAIN cb :
           (CbRequestStep(p) /\ ~MissingCookie(cb'[p].event)
                /\ TempItemsOf(store, cb'[p].event) = {}) =>
               /\ cb'[p].pc = "done"
               /\ store' = store
               /\ CbOps(cb'[p]) \in {<<>>, <<[op |-> "get", pk |-> <<"APP#">> \o APP_ID \o <<"#TEMP">>,
                                       sk |-> <<"SESSION#">> \o TempIdOf(cb'[p].event),
                                       ok |-> TRUE]>>}
               /\ cb'[p].event.queryStringParameters # Null =>
                      (cb'[p].result = "response" /\ cb'[p].resp.statusCode = 400)

C19_Issued ==
    /\ \A p \in DOMAIN cb :
           SessionPuts(cb[p]) # {} =>
               /\ ReadAndDeleted([cb[p] EXCEPT !.ops = SubSeq(@, 1, 4)])
               /\ TempItemsOf(store, cb[p].event) = {}
    /\ \A n \in 1..MaxIds : Consumed(n) => ~TempPresent(n)
    /\ \A i \in store :
           IsTempItem(i) => \E n \in 1..(nextId - 1) : i.sk = <<"SESSION#", ToString(n)>>

\* C19 (Spec): a temp session is written by a login under an id never used
\* before and is deleted only by the callback that read it; once a callback
\* has consumed temp session t the record of t is not in the store, and no
\* step writes a temp session under an id already drawn, so every later
\* callback presenting t's cookie, whatever its code and state, returns 400
\* and writes nothing; tenant records and sessions are written only by a
\* callback that has read and deleted a temp session.
C19_TempSessionSingleUse == []C19_Issued /\ [][C19_Step]_vars

\* a second callback with the cookie, code and state of a consumed temp
\* session was rejected
C19_Witness ==
    \E p \in DOMAIN cb :
        /\ cb[p].pc = "done"
        /\ cb[p].result = "response"
        /\ cb[p].resp.statusCode = 400
        /\ cb[p].resp.body = <<"Session expired or invalid">>
        /\ cb[p].event.queryStringParameters = [code |-> <<"c1">>, state |-> <<"st", "1">>]
        /\ TempIdOf(cb[p].event) = <<"1">>
        /\ \E i \in store : IsSessionItem(i) /\ i.session_id = <<"2">>

\* the request names a stored temp session but presents another state
StateMismatch(st, event) ==
    /\ ~MissingParameter(event)
    /\ ~MissingCookie(event)
    /\ \E i \in TempItemsOf(st, event) : i.state # event.queryStringParameters.state

C20_Step ==
    \A p \in DOMAIN cb :
        (CbRequestStep(p) /\ StateMismatch(store, cb'[p].event)) =>
            LET missing == callback_validate(cb'[p].event,
                                             store \ TempItemsOf(store, cb'[p].event))
            IN  /\ cb'[p].result = missing.result
                /\ cb'[p].resp.statusCode = missing.resp.statusCode
                /\ cb'[p].resp.body = missing.resp.body

\* C20 (SpecCallback): the response (status code and body) to a callback
\* whose temp session exists but holds another state is the response the same
\* request gets when no temp session exists for the cookie's id.  (Violated:
\* the two bodies differ.)
C20_StateMismatchIndistinguishable == [][C20_Step]_vars

(***************************************************************************)
(* Properties of Login and of the PKCE pair.                               *)
(***************************************************************************)
\* text u is a part of text v
Occurs(u, v) == \E i \in 1..(Len(v) - Len(u) + 1) : SubSeq(v, i, i + Len(u) - 1) = u

\* the verifiers the logins of the model can generate
Verifiers == {VerifierOf(n) : n \in 1..(MaxIds + 1)}

\* a verifier is a part of the text (every verifier of the model has the
\* length of the first)
HoldsVerifier(t) ==
    \E i \in 1..(Len(t) - Len(VerifierOf(1)) + 1) :
        SubSeq(t, i, i + Len(VerifierOf(1)) - 1) \in Verifiers

\* every text of a login response
LoginTexts(resp) ==
    {resp.headers.Location[k] : k \in DOMAIN resp.headers.Location}
        \cup {resp.headers.SetCookie, resp.body}
        \cup {resp.multiValueHeaders[k] : k \in DOMAIN resp.multiValueHeaders}

\* every text of a callback response
CallbackTexts(resp) ==
    {resp.body} \cup
    (IF "headers" \in DOMAIN resp
     THEN {resp.headers.Location, resp.headers.SetCookie}
              \cup {resp.multiValueHeaders[k] : k \in DOMAIN resp.multiValueHeaders}
     ELSE {})

\* the fields of items and operations that are not texts
NonText == {"expires_at", "expires_in", "created_at", "updated_at",
            "op", "ok", "outcome", "grant", "resp", "data"}

\* the fields of a stored item, of an operation or of a posted form whose
\* value is a verifier
VerifierFields(r) == {k \in DOMAIN r \ NonText : r[k] \in Verifiers}

IsExchange(x) == x.op = "token" /\ x.grant = "authorization_code"

\* C21 (Spec): a code_verifier generated by Login is in no text of any Login
\* or Callback response; in the store it is the code_verifier field of a
\* Temporary Auth Session and nothing else; the Callback sends it as the
\* code_verifier of the token-endpoint form and nowhere else - the verifier
\* it sends is the stored one; the temp cookie of a Login response is
\* temp_session_id=<tempSessionId> followed by the cookie attributes.
C21_VerifierStaysServerSide ==
    /\ \A p \in DOMAIN lg : lg[p].result = "response" =>
           /\ \A t \in LoginTexts(lg[p].resp) : ~HoldsVerifier(t)
           /\ \E n \in 1..MaxIds :
                  /\ lg[p].resp.headers.SetCookie = TempCookie(Uuid(n)) \o CookieAttrs(TEMP_TTL)
                  /\ lg[p].resp.multiValueHeaders = <<lg[p].resp.headers.SetCookie>>
    /\ \A p \in DOMAIN cb : cb[p].result = "response" =>
           \A t \in CallbackTexts(cb[p].resp) : ~HoldsVerifier(t)
    /\ \A i \in store :
           /\ VerifierFields(i) \subseteq {"code_verifier"}
           /\ VerifierFields(i) # {} => IsTempItem(i)
    /\ \A p \in DOMAIN cb : \A k \in 1..Len(CbOps(cb[p])) :
           LET x == CbOps(cb[p])[k]
           IN  IF IsExchange(x)
               THEN /\ x.data.code_verifier = cb[p].code_verifier
                    /\ VerifierFields(x.data) \subseteq {"code_verifier"}
               ELSE VerifierFields(x) = {}

\* a callback has posted a generated verifier to the token endpoint and has
\* answered with the redirect, and a login has answered before it
C21_Witness ==
    /\ \E p \in DOMAIN cb :
           /\ cb[p].result = "response" /\ cb[p].resp.statusCode = 302
           /\ \E k \in 1..Len(CbOps(cb[p])) :
                  /\ IsExchange(CbOps(cb[p])[k])
                  /\ CbOps(cb[p])[k].data.code_verifier \in Verifiers
    /\ nextId > 2

LoginStep(p) == lg[p].pc = "idle" /\ lg'[p].pc = "done"

\* the store keys that an invocation has held before this step
KeysOf(st) == {<<i.pk, i.sk>> : i \in st}

C22_Step ==
    \A p \in DOMAIN lg : LoginStep(p) =>
        /\ Len(lg'[p].ops) = 1
        /\ lg'[p].ops[1].op = "put"
        /\ lg'[p].ops[1].pk = <<"APP#">> \o APP_ID \o <<"#TEMP">>
        /\ IF lg'[p].result = "response"
           THEN \E item \in store' :
                  LET resp == lg'[p].resp
                      id == SubSeq(item.sk, 2, Len(item.sk))
                  IN  /\ store' = store \cup {item}
                      /\ <<item.pk, item.sk>> \notin KeysOf(store)
                      /\ item.pk = lg'[p].ops[1].pk /\ item.sk = lg'[p].ops[1].sk
                      /\ item.sk = <<"SESSION#">> \o id
                      /\ {"state", "nonce", "code_verifier", "expires_at"} \subseteq DOMAIN item
                      /\ item.expires_at = now + 600
                      /\ resp.statusCode = 302
                      /\ resp.headers.Location.state = item.state
                      /\ resp.headers.Location.nonce = item.nonce
                      /\ resp.headers.Location.code_challenge_method = <<"S256">>
                      /\ resp.headers.Location.code_challenge = Challenge(item.code_verifier)
                      /\ IsPrefix(<<"temp_session_id", "=">> \o id \o <<";">>,
                                  resp.headers.SetCookie)
                      /\ resp.multiValueHeaders = <<resp.headers.SetCookie>>
           ELSE store' = store

\* C22 (Spec): a Login invocation issues exactly one store operation, a put
\* under APP#<appId>#TEMP; when the put succeeds the store gains exactly one
\* item, under a sort key SESSION#<id> that no stored item had, with state,
\* nonce, code_verifier and expires_at = now + 600, no other item changes,
\* and the response is a 302 whose Location carries the stored state and
\* nonce, code_challenge_method=S256 and the challenge of the stored
\* verifier and whose cookie is temp_session_id=<id>; when the put raises
\* the store is unchanged.
C22_LoginWritesOneTempSession == [][C22_Step]_vars

\* a login has answered over a store that holds a session and a temp session
\* of an earlier login
C22_Witness ==
    \E p \in DOMAIN lg :
        /\ lg[p].result = "response"
        /\ \E i \in store : IsSessionItem(i)
        /\ Cardinality({i \in store : IsTempItem(i)}) >= 2

C23_Step ==
    \A p \in DOMAIN lg : (LoginStep(p) /\ lg'[p].result = "response") =>
        /\ Len(SelectSeq(lg'[p].ops, IsPut)) = 1
        /\ \A item \in store' \ store :
               /\ "code_verifier" \in DOMAIN item
               /\ "session_id" \in DOMAIN item
               /\ IsPrefix(<<"temp_">>, item.session_id)

\* C23 (Spec): the record a Login writes has a session_id field whose value
\* begins with "temp_" and a code_verifier field, and the Login calls the
\* store's put exactly once.  (Violated: the record has no session_id field.)
C23_LoginRecordSessionId == [][C23_Step]_vars

(***************************************************************************)
(* Properties of the refresh race, checked under SpecRefresh.              *)
(***************************************************************************)
Triple(i) == <<i.access_token, i.refresh_token, i.expires_at>>

\* the triple that one refresh response yields for an invocation that read
\* refresh token rt and called the token endpoint at time t
TripleOf(resp, rt, t) ==
    <<resp.access_token,
      IF "refresh_token" \in DOMAIN resp THEN resp.refresh_token ELSE rt,
      t + (IF "expires_in" \in DOMAIN resp THEN resp.expires_in ELSE 3600)>>

\* the answer of the token endpoint to the invocation's refresh grant
RefreshResponse(a) == a.ops[Len(a.ops)].resp

\* the invocation holds the triple of its own refresh response, whole
PendingIsWhole(a) ==
    \E t \in a.t0..now :
        <<a.new_access_token, a.new_refresh_token, a.new_expires_at>>
            = TripleOf(RefreshResponse(a), a.refresh_token, t)

Identity(i) == <<i.pk, i.sk, i.tenant_id, i.app_id, i.session_id, i.id_token, i.type>>

C24_Step ==
    \A i \in store :
        \/ i \in store'
        \/ \E p \in DOMAIN authz :
               /\ authz[p].pc = "update" /\ authz'[p].pc = "done"
               /\ PendingIsWhole(authz[p])
               /\ \E j \in store' :
                      /\ store' = (store \ {i}) \cup {j}
                      /\ DOMAIN j = DOMAIN i
                      /\ Identity(j) = Identity(i)
                      /\ Triple(j) = <<authz[p].new_access_token, authz[p].new_refresh_token,
                                       authz[p].new_expires_at>>

C24_Record ==
    /\ Cardinality(store) = 1
    /\ \A i \in store :
           /\ Identity(i) = Identity(RaceSession)
           /\ \/ Triple(i) = Triple(RaceSession)
              \/ \E resp \in RefreshResponses, t \in Now0..now, rt \in {<<"rt0">>, <<"rt1">>} :
                     /\ "access_token" \in DOMAIN resp
                     /\ Triple(i) = TripleOf(resp, rt, t)
    /\ \A p \in DOMAIN authz : authz[p].pc = "update" => PendingIsWhole(authz[p])

\* C24 (SpecRefresh): under every interleaving of concurrent Authorizer
\* invocations that refresh the same session, the stored (access_token,
\* refresh_token, expires_at) is at every point the callback's triple or the
\* whole triple one invocation derived from one refresh response - each
\* update replaces the three fields together with that invocation's triple -
\* and the key, tenant_id, app_id, session_id and id_token never change.
C24_RefreshRaceSelfConsistent == []C24_Record /\ [][C24_Step]_vars

\* two invocations are at their store update at once, with different triples
\* to write, and the record has been refreshed before
C24_Witness ==
    /\ \E p, q \in DOMAIN authz :
           /\ p # q
           /\ authz[p].pc = "update" /\ authz[q].pc = "update"
           /\ authz[p].new_refresh_token # authz[q].new_refresh_token
    /\ \E i \in store : i.access_token = <<"at1">>

(***************************************************************************)
(* Internal errors of the Authorizer, checked under SpecAuthz.             *)
(***************************************************************************)
\* the operations of the invocation that raised
RaisedOps(a) == {k \in 1..Len(a.ops) : ~a.ops[k].ok}

LookupRaised(a) == \E k \in RaisedOps(a) : a.ops[k].op = "get"

\* the token endpoint or the refresh update raised
RefreshRaised(a) == \E k \in RaisedOps(a) : a.ops[k].op \in {"token", "update"}

\* C25 as stated (SpecAuthz): an invocation in which a store operation or a
\* network call raised does not end in Allow.  (Violated: a refresh that
\* fails for a session not yet expired ends in Allow.)
C25_Original ==
    \A p \in DOMAIN authz :
        (authz[p].pc = "done" /\ RaisedOps(authz[p]) # {}) => ~Allowed(p)

AuthzFinishes(p) == authz[p].pc # "done" /\ authz'[p].pc = "done"

C25_Step ==
    \A p \in DOMAIN authz : AuthzFinishes(p) =>
        LET a == authz'[p]
        IN  /\ LookupRaised(a) => a.result = "raised"
            /\ RefreshRaised(a) =>
                   /\ a.result = "policy"
                   /\ IF a.expires_at < now
                      THEN a.policy.Effect = "Deny"
                      ELSE /\ a.policy.Effect = "Allow"
                           /\ a.policy.context.access_token = a.item.access_token

\* C25 (SpecAuthz): a session lookup that raises aborts the invocation: no
\* policy is returned.  When the token endpoint or the refresh update
\* raises, the refresh counts as failed: the result is Deny if the stored
\* expires_at is already past, and otherwise Allow with the access token
\* that was stored before the refresh, never a token of the failed refresh.
\* (A secret fetch that raises is logged and the refresh goes on without
\* the client secret.)
C25_FailClosed == [][C25_Step]_vars

\* the refresh update raised after the token endpoint had issued a new token,
\* and the invocation ended in Allow
C25_Witness ==
    \E p \in DOMAIN authz :
        /\ Allowed(p)
        /\ \E k \in RaisedOps(authz[p]) : authz[p].ops[k].op = "update"
        /\ authz[p].new_access_token # authz[p].policy.context.access_token

\* how many times the character occurs in the text
CountOf(s, ch) == Cardinality({i \in 1..Len(s) : s[i] = ch})

\* the value of the session_id cookie of the event, None when there is none
RawSession(event) ==
    IF Truthy(CookieHeader(event.headers))
    THEN CookieGet(ParseCookies(CookieHeader(event.headers)), <<"session_id">>)
    ELSE None

C26_Step ==
    \A p \in DOMAIN authz :
        ( /\ authz[p].pc = "idle"
          /\ authz'[p].pc # "idle"
          /\ Truthy(RawSession(authz'[p].event))
          /\ CountOf(RawSession(authz'[p].event), ":") # 1 )
        => /\ authz'[p].pc = "done"
           /\ authz'[p].result = "policy"
           /\ authz'[p].policy.Effect = "Deny"
           /\ authz'[p].ops = <<>>

\* C26 (SpecAuthz): a session_id cookie value that does not hold exactly one
\* ':' - none, or two or more as in a:b:c - gives Deny with no store
\* operation.  (Violated: a value with two ':' is looked up in the store.)
C26_NotExactlyOneSeparator == [][C26_Step]_vars

(***************************************************************************)
(* Further properties of the Callback, checked under SpecCallback.         *)
(***************************************************************************)
\* the request passes every check of the callback, and the temp session it
\* names is stored with an expires_at that is past
ExpiredTemp(st, event, t) ==
    /\ ~FailsValidation(st, event)
    /\ \E i \in TempItemsOf(st, event) : i.expires_at < t

C27_Step ==
    \A p \in DOMAIN cb :
        (CbRequestStep(p) /\ ExpiredTemp(store, cb'[p].event, now)) =>
            /\ cb'[p].pc = "done"
            /\ cb'[p].result = "response"
            /\ cb'[p].resp.statusCode = 400

\* C27 (SpecCallback): a callback whose temp session is still stored but has
\* an expires_at in the past is rejected with 400 at the validation, so that
\* no token exchange follows and no session is written.  (Violated: the
\* callback never reads expires_at and goes on to the exchange.)
C27_ExpiredTempRejected == [][C27_Step]_vars

\* the id_token of the token response decodes to claims with tenant_id and
\* without tid
TenantIdClaimOnly(token_resp) ==
    /\ "id_token" \in DOMAIN token_resp
    /\ LET claims == decode_jwt_claims_handler(token_resp.id_token)
       IN  "tid" \notin DOMAIN claims /\ "tenant_id" \in DOMAIN claims

\* C28 (SpecCallback): when the id_token has a tenant_id claim and no tid
\* claim, the callback's tenant - for the onboarding, for the session's
\* partition key and tenant_id field and for the cookie - is the value of the
\* tenant_id claim, the tenant the Authorizer derives from that id_token.
\* (Violated: the callback takes the tenant id "unknown".)
C28_TenantIdClaimFallback ==
    \A p \in DOMAIN cb :
        (PastClaimExtraction(cb[p]) /\ TenantIdClaimOnly(cb[p].token_resp)) =>
            LET claim == decode_jwt_claims_handler(cb[p].token_resp.id_token).tenant_id
            IN  /\ cb[p].tenant_id = claim
                /\ cb[p].tenant_id = extract_tenant_claim(cb[p].token_resp).tenant
                /\ cb[p].o.tenant_id = claim
                /\ \A n \in SessionPuts(cb[p]) :
                       CbOps(cb[p])[n].pk = <<"APP#">> \o APP_ID \o <<"#TENANT#">> \o claim

\* the Set-Cookie headers of a response
SetCookies(resp) ==
    IF "multiValueHeaders" \in DOMAIN resp
    THEN {resp.multiValueHeaders[k] : k \in DOMAIN resp.multiValueHeaders}
    ELSE {}

\* a Set-Cookie that expires the temp cookie
ExpiresTemp(cookie) ==
    /\ IsPrefix(<<"temp_session_id", "=", ";">>, cookie)
    /\ Occurs(<<"Max-Age", "=", "0">>, cookie)

\* C29 (SpecCallback): every response of the callback - the 400 and 500
\* failures as well as the 302 - carries a Set-Cookie that expires the temp
\* cookie, and the 302 sets the session cookie in the same response.
\* (Violated: the failure responses carry no header at all.)
C29_TempCookieExpiredOnEveryResponse ==
    \A p \in DOMAIN cb : cb[p].result = "response" =>
        /\ \E cookie \in SetCookies(cb[p].resp) : ExpiresTemp(cookie)
        /\ cb[p].resp.statusCode = 302 =>
               \E cookie \in SetCookies(cb[p].resp) :
                   IsPrefix(<<"session_id", "=">>, cookie)

(***************************************************************************)
(* Properties of the PKCE pair, checked under SpecPkce.                    *)
(***************************************************************************)
CharsOf(text) == {text[i] : i \in 1..Len(text)}

\* the characters that need no escaping in a URL
UrlSafeChars ==
    CharsOf(AsciiUpper) \cup CharsOf(AsciiLower) \cup CharsOf(AsciiDigits) \cup {"-", "_", ".", "~"}

\* C30 (SpecPkce): for every generated pair the challenge is the base64url
\* text of the SHA-256 digest of the verifier's ASCII bytes with the trailing
\* padding taken off - a function of the verifier alone - it holds none of
\* '=', '+', '/', and the verifier has at least 43 characters, all URL-safe.
C30_PkcePair ==
    \A p \in DOMAIN lg : lg[p].pc = "done" =>
        /\ lg[p].challenge = RStrip(urlsafe_b64encode(Sha256(Ascii(lg[p].verifier))), "=")
        /\ CharsOf(lg[p].challenge) \cap {"=", "+", "/"} = {}
        /\ Len(lg[p].verifier) >= 43
        /\ CharsOf(lg[p].verifier) \subseteq UrlSafeChars

\* a pair whose encoded digest ended in padding and whose challenge and
\* verifier use the two characters that set base64url apart from base64
C30_Witness ==
    \E p \in DOMAIN lg :
        /\ lg[p].pc = "done"
        /\ urlsafe_b64encode(Sha256(Ascii(lg[p].verifier)))[44] = "="
        /\ Len(lg[p].challenge) = 43
        /\ CharsOf(lg[p].challenge) \cap {"-", "_"} # {}
        /\ CharsOf(lg[p].verifier) \cap {"-", "_"} # {}

(***************************************************************************)
(* The refresh path of the Authorizer, checked under SpecAuthz.            *)
(***************************************************************************)
\* the record the invocation read is a session the checks let through
ValidRecord(a) ==
    /\ a.item # EmptyDict
    /\ GetN(a.item, "tenant_id") = a.tenant_id
    /\ GetN(a.item, "session_id") = a.session_id
    /\ GetN(a.item, "app_id") = APP_ID
    /\ RecordClaim(a.item) = a.tenant_id

\* the record is inside the refresh window (or past it) at time t and has a
\* refresh token
Refreshable(item, t) ==
    /\ item.expires_at < t + 300
    /\ Truthy(GetN(item, "refresh_token"))

\* the last operation of the invocation
LastOf(a) == a.ops[Len(a.ops)]

\* the token-endpoint answer of the invocation's refresh grant
GrantResponse(a) ==
    LET k == CHOOSE k \in 1..Len(a.ops) : a.ops[k].op = "token"
    IN  a.ops[k].resp

\* the refresh grant of the invocation was answered with a new access token
GrantSucceeded(a) ==
    /\ \E k \in 1..Len(a.ops) : a.ops[k].op = "token"
    /\ "error" \notin DOMAIN GrantResponse(a)
    /\ "access_token" \in DOMAIN GrantResponse(a)

AuthzRequestStep(p) == authz[p].pc = "idle" /\ authz'[p].pc # "idle"

AuthzExchangeStep(p) == authz[p].pc = "refresh" /\ authz'[p].pc # "refresh"

AuthzUpdateStep(p) == authz[p].pc = "update" /\ authz'[p].pc # "update"

C31_Step ==
    \A p \in DOMAIN authz :
        /\ ( /\ AuthzRequestStep(p)
             /\ authz'[p].ops # <<>>
             /\ LastOf(authz'[p]).ok
             /\ ValidRecord(authz'[p])
             /\ Refreshable(authz'[p].item, now) )
           => authz'[p].pc = "refresh"
        /\ (AuthzExchangeStep(p) /\ GrantSucceeded(authz'[p]))
           => authz'[p].pc = "update"
        /\ (AuthzUpdateStep(p) /\ LastOf(authz'[p]).ok) =>
               LET a == authz'[p]
                   resp == GrantResponse(a)
                   old == a.item
                   new == CHOOSE i \in store' : i.pk = old.pk /\ i.sk = old.sk
               IN  /\ GrantSucceeded(a)
                   /\ Refreshable(old, a.t0)
                   /\ store' = (store \ {i \in store : i.pk = old.pk /\ i.sk = old.sk})
                                   \cup {new}
                   /\ new.access_token = resp.access_token
                   /\ new.refresh_token = IF "refresh_token" \in DOMAIN resp
                                          THEN resp.refresh_token ELSE old.refresh_token
                   /\ \E t \in a.t0..now :
                          new.expires_at = t + (IF "expires_in" \in DOMAIN resp
                                                THEN resp.expires_in ELSE 3600)
                   /\ a.result = "policy"
                   /\ a.policy.Effect = "Allow"
                   /\ a.policy.context.access_token = resp.access_token

\* C31 (SpecAuthz): a valid session whose expires_at is below now + 300 and
\* that has a refresh token goes to the refresh grant; a grant answered with
\* an access token goes to the store update; and when the update succeeds the
\* stored record has the new access_token, the refresh_token of the answer
\* (the stored one when the answer has none) and expires_at = time of the
\* grant + expires_in (3600 when the answer has none), and the result is Allow
\* whose context access_token is the token of the answer, not the one read.
C31_SuccessfulRefresh == [][C31_Step]_vars

\* an expired session has been refreshed with a rotated refresh token
C31_Witness ==
    \E p \in DOMAIN authz :
        /\ Allowed(p)
        /\ LastOf(authz[p]).op = "update" /\ LastOf(authz[p]).ok
        /\ authz[p].item.expires_at < authz[p].t0
        /\ authz[p].policy.context.access_token # authz[p].item.access_token
        /\ \E i \in store : i.refresh_token = <<"rt1">> /\ i.access_token = <<"at1">>

\* the step ends a refresh attempt of p that failed: the grant raised or was
\* answered without an access token, or the store update raised
RefreshFails(p) ==
    \/ AuthzExchangeStep(p) /\ ~GrantSucceeded(authz'[p])
    \/ AuthzUpdateStep(p) /\ ~LastOf(authz'[p]).ok

C32_Step ==
    \A p \in DOMAIN authz :
        (RefreshFails(p) /\ now <= authz[p].item.expires_at) =>
            /\ authz[p].item.expires_at < now + 300
            /\ Truthy(authz[p].item.refresh_token)
            /\ authz'[p].pc = "done"
            /\ authz'[p].result = "policy"
            /\ authz'[p].policy.Effect = "Allow"
            /\ authz'[p].policy.context.access_token = authz[p].item.access_token
            /\ store' = store
            /\ \A k \in 1..Len(authz'[p].ops) :
                   authz'[p].ops[k].op = "update" => ~authz'[p].ops[k].ok

\* C32 (SpecAuthz): when the refresh attempt of an invocation fails and the
\* session it read is not yet expired (now <= expires_at < now + 300, with a
\* refresh token), the result is Allow whose context access_token is the
\* stored one, and the invocation has left the stored record as it was.
C32_FailedRefreshInWindow == [][C32_Step]_vars

\* the grant was answered without an access token for a session that expires
\* this very second, and the invocation ended in Allow
C32_Witness ==
    \E p \in DOMAIN authz :
        /\ Allowed(p)
        /\ LastOf(authz[p]).op = "token"
        /\ "error" \notin DOMAIN LastOf(authz[p]).resp
        /\ authz[p].item.expires_at = now
        /\ authz[p].item \in store

(***************************************************************************)
(* C33: who changes a stored session.                                      *)
(***************************************************************************)
Mutable == {"access_token", "refresh_token", "expires_at"}

Sessions(st) == {i \in st : IsSessionItem(i)}

\* j is i with nothing but the refreshed triple changed
SameButTriple(i, j) ==
    /\ DOMAIN j = DOMAIN i
    /\ \A k \in DOMAIN i \ Mutable : j[k] = i[k]

\* this step is the successful update_item of a refresh of invocation p
RefreshedBy(p) ==
    /\ AuthzUpdateStep(p)
    /\ LastOf(authz'[p]).ok
    /\ GrantSucceeded(authz'[p])

C33_Step ==
    /\ \A i \in Sessions(store) :
           \/ i \in store'
           \/ \E p \in DOMAIN authz :
                  /\ RefreshedBy(p)
                  /\ i.pk = tenant_pk(authz[p].tenant_id)
                  /\ i.sk = session_sk(authz[p].session_id)
                  /\ \E j \in store' :
                         /\ store' = (store \ {i}) \cup {j}
                         /\ SameButTriple(i, j)
    /\ (lg' # lg \/ cb' # cb \/ onb' # onb) => Sessions(store) \subseteq store'
    /\ \A p \in DOMAIN authz :
           (authz'[p] # authz[p] /\ ~RefreshedBy(p)) => store' = store
    /\ \A i \in Sessions(store') \ store :
           (cb' # cb) => <<i.pk, i.sk>> \notin KeysOf(store)

\* C33 (Spec): a stored session keeps every field but access_token,
\* refresh_token and expires_at for ever, and those three change only in the
\* successful update of an Authorizer refresh of that very session; steps of
\* Login, Callback and onboarding leave every stored session as it was, the
\* Callback writes its session under a key that was not stored, and an
\* Authorizer step that is not a successful refresh update leaves the table
\* as it was.
C33_SessionsChangeOnlyByRefresh == [][C33_Step]_vars

\* a session that a refresh has rewritten lies beside a second session that a
\* later callback has written
C33_Witness ==
    \E i, j \in Sessions(store) :
        /\ i # j
        /\ i.access_token = <<"at1">>
        /\ j.access_token # <<"at1">>
        /\ \E p \in DOMAIN cb : cb[p].pc = "done"

(***************************************************************************)
(* C34: the order of the steps of one callback.                            *)
(***************************************************************************)
\* this step ends invocation p with the 500 of a failed onboarding
OnboardingFails(p) ==
    /\ cb[p].pc = "onboard"
    /\ cb'[p].pc = "done"
    /\ cb'[p].result = "response"
    /\ cb'[p].resp = Response(500, <<"Tenant onboarding failed">>)

Deletes(c) == {k \in 1..Len(CbOps(c)) : CbOps(c)[k].op = "delete"}

OnboardingPuts(c) ==
    {k \in 1..Len(CbOps(c)) : CbOps(c)[k].op = "put" /\ ~IsSessionPut(CbOps(c)[k])}

C34_Step ==
    \A p \in DOMAIN cb :
        /\ OnboardingFails(p) => Deletes(cb'[p]) = {}
        /\ \A d \in Deletes(cb'[p]) : \A k \in OnboardingPuts(cb'[p]) : k < d

\* C34 (SpecCallback): in one callback the delete of the temp session comes
\* after every store operation of the onboarding, and a callback that ends
\* with the 500 of a failed onboarding has issued no delete.  (Violated: the
\* delete_item of line 314 precedes ensure_tenant_onboarding of line 327.)
C34_DeleteAfterOnboarding == [][C34_Step]_vars

(***************************************************************************)
(* C35: which token the tenant claim is taken from (SpecAuthz).            *)
(***************************************************************************)
IdClaim(item) == ClaimOfToken(GetN(item, "id_token"))

AccessClaim(item) == ClaimOfToken(GetN(item, "access_token"))

\* C35 (SpecAuthz): for an invocation that has read a record, a tenant claim
\* of the id_token that differs from the cookie's tenant means Deny whatever
\* the access_token claims, and an Allow without a tenant claim in the
\* id_token rests on the access_token's claim being the cookie's tenant.
C35_IdTokenPrecedence ==
    \A p \in DOMAIN authz :
        (AuthzDone(p) /\ authz[p].item # EmptyDict) =>
            /\ (Truthy(IdClaim(authz[p].item)) /\ IdClaim(authz[p].item) # authz[p].tenant_id)
                   => Denied(p)
            /\ (Allowed(p) /\ ~Truthy(IdClaim(authz[p].item)))
                   => AccessClaim(authz[p].item) = authz[p].tenant_id

\* a record that passes the cross-check, whose access_token claims the
\* cookie's tenant and whose id_token claims another one, has been denied
C35_Witness ==
    \E p \in DOMAIN authz :
        /\ Denied(p)
        /\ authz[p].item # EmptyDict
        /\ CrossCheck(authz[p].item, authz[p].tenant_id, authz[p].session_id)
        /\ AccessClaim(authz[p].item) = authz[p].tenant_id
        /\ Truthy(IdClaim(authz[p].item))
        /\ IdClaim(authz[p].item) # authz[p].tenant_id

(***************************************************************************)
(* C36: every invocation ends, and calls the token endpoint at most once.  *)
(***************************************************************************)
\* the steps an invocation may still take, at most
RankLg(l) == IF l.pc = "done" THEN 0 ELSE 1

RankAuthz(a) ==
    CASE a.pc = "done"    -> 0
      [] a.pc = "update"  -> 1
      [] a.pc = "refresh" -> 2
      [] OTHER            -> 3

RankCb(c) ==
    CASE c.pc = "done"     -> 0
      [] c.pc = "session"  -> 1
      [] c.pc = "onboard"  -> 2 * (NumRecords - c.o.idx + 1)
                                + (IF c.o.phase = "put" THEN 1 ELSE 0) + 1
      [] c.pc = "delete"   -> 2 * NumRecords + 3
      [] c.pc = "exchange" -> 2 * NumRecords + 4
      [] OTHER             -> 2 * NumRecords + 5

\* an outbound call that failed: the token endpoint or the store
Failed(op) ==
    \/ op.op \in {"token", "get", "update"} /\ ~op.ok
    \/ op.op = "put" /\ op.outcome = "error"

\* the same call once more
SameCall(a, b) ==
    /\ a.op = b.op
    /\ a.op \in {"get", "put", "update", "delete"} => (a.pk = b.pk /\ a.sk = b.sk)

\* the calls of one invocation: at most one to the token endpoint, none
\* made twice, none after a call that failed
CallsOnce(ops) ==
    /\ Cardinality({k \in 1..Len(ops) : ops[k].op = "token"}) <= 1
    /\ \A j, k \in 1..Len(ops) : j < k => ~SameCall(ops[j], ops[k])
    /\ \A k \in 1..Len(ops) : Failed(ops[k]) => k = Len(ops)

C36_Calls ==
    /\ \A p \in DOMAIN lg : CallsOnce(lg[p].ops) /\ Len(lg[p].ops) <= 1
    /\ \A p \in DOMAIN authz : CallsOnce(authz[p].ops) /\ Len(authz[p].ops) <= 4
    /\ \A p \in DOMAIN cb :
           CallsOnce(CbOps(cb[p])) /\ Len(CbOps(cb[p])) <= 2 * NumRecords + 5

\* a running invocation stands before a step of its handler: the guards of
\* the actions are these positions, so that none is left without a step
C36_Progress ==
    /\ \A p \in DOMAIN lg : lg[p].pc \in {"idle", "done"}
    /\ \A p \in DOMAIN authz : authz[p].pc \in {"idle", "refresh", "update", "done"}
    /\ \A p \in DOMAIN cb :
           /\ cb[p].pc \in {"idle", "exchange", "delete", "onboard", "session", "done"}
           /\ cb[p].pc = "onboard" =>
                  /\ cb[p].o.phase \in {"put", "get"}
                  /\ cb[p].o.idx \in 1..NumRecords

C36_Step ==
    /\ \A p \in DOMAIN lg :
           (lg'[p] # lg[p] /\ lg'[p].pc # "idle") => RankLg(lg'[p]) < RankLg(lg[p])
    /\ \A p \in DOMAIN authz :
           (authz'[p] # authz[p] /\ authz'[p].pc # "idle") =>
               RankAuthz(authz'[p]) < RankAuthz(authz[p])
    /\ \A p \in DOMAIN cb :
           (cb'[p] # cb[p] /\ cb'[p].pc # "idle") => RankCb(cb'[p]) < RankCb(cb[p])

CookieEventOf(i) ==
    CookieEvent("Cookie", SessionCookie(Composite(i.tenant_id, i.session_id)))

C37_Step ==
    \A p \in DOMAIN authz : \A i \in Sessions(store) :
        ( /\ AuthzRequestStep(p)
          /\ authz'[p].event = CookieEventOf(i)
          /\ authz'[p].result # "raised"
          /\ now <= i.expires_at ) =>
            \/ authz'[p].pc = "refresh"
            \/ /\ authz'[p].pc = "done"
                /\ authz'[p].result = "policy"
                /\ authz'[p].policy.Effect = "Allow"
                /\ authz'[p].policy.context.tenant_id = i.tenant_id
                /\ authz'[p].policy.context.session_id = i.session_id

\* C37 (Spec): an Authorizer invocation that presents the cookie issued by
\* the callback for a stored session that is not expired, and whose lookup
\* succeeds, is not denied by the checks on the record: it goes on to the
\* refresh or ends in Allow with the tenant and the session of the record.
\* (Violated: for an id_token without tid the callback stores the tenant
\* "unknown", which the Authorizer never derives from the tokens.)
C37_IssuedCookieAccepted == [][C37_Step]_vars

(***************************************************************************)
(* C38: concurrent callbacks for one temp session (SpecCbRace).            *)
(***************************************************************************)
\* C38 (SpecCbRace): of the callbacks that present the cookie and the state
\* of one temp session, at most one writes a session: the table never holds
\* two sessions.  (Violated: two callbacks that both look the temp session
\* up before either deletes it both go on, and each writes its session.)
C38_OneSessionPerTempSession == Cardinality(Sessions(store)) <= 1

(***************************************************************************)
(* C39: a refresh whose session has been removed meanwhile (SpecCleanup).  *)
(***************************************************************************)
\* the fields the callback writes into a session (auth_handler.py 332-345)
SessionFields ==
    {"pk", "sk", "tenant_id", "app_id", "session_id", "access_token", "id_token",
     "refresh_token", "expires_at", "type"}

C39_Step ==
    \A p \in DOMAIN authz :
        (AuthzUpdateStep(p) /\ get_item(store, tenant_pk(authz[p].tenant_id),
                                        session_sk(authz[p].session_id)) = EmptyDict) =>
            store' = store

\* C39 (SpecCleanup): the update of a refresh brings no record into being
\* under a key that is not stored, and every session in the table has the
\* whole set of fields the callback writes.  (Violated: update_item creates
\* the item when the key is gone, with the key and the three fields it sets.)
C39_RefreshNeverResurrects ==
    [](\A i \in Sessions(store) : DOMAIN i = SessionFields) /\ [][C39_Step]_vars

(***************************************************************************)
(* C40: what an Authorizer invocation reads and writes (SpecAuthz).        *)
(***************************************************************************)
\* the record read is outside the refresh path: it expires in 300 s or more,
\* or it has no refresh token
NoRefreshDue(item, t) ==
    \/ ~Truthy(GetN(item, "refresh_token"))
    \/ "expires_at" \in DOMAIN item /\ item.expires_at >= t + 300

WritesOf(ops) == {k \in 1..Len(ops) : ops[k].op = "update"}

ReadsOf(ops) == {k \in 1..Len(ops) : ops[k].op = "get"}

TokenCallsOf(ops) == {k \in 1..Len(ops) : ops[k].op = "token"}

C40_Step ==
    /\ store' # store =>
           \E p \in DOMAIN authz :
               /\ AuthzUpdateStep(p)
               /\ LastOf(authz'[p]).op = "update" /\ LastOf(authz'[p]).ok
               /\ TokenCallsOf(authz'[p].ops) # {}
    /\ \A p \in DOMAIN authz :
           /\ ( /\ AuthzRequestStep(p)
                /\ authz'[p].item # EmptyDict
                /\ NoRefreshDue(authz'[p].item, now) ) =>
                  /\ authz'[p].pc = "done"
                  /\ Cardinality(ReadsOf(authz'[p].ops)) = 1
                  /\ WritesOf(authz'[p].ops) = {}
                  /\ TokenCallsOf(authz'[p].ops) = {}
                  /\ store' = store
           /\ ( /\ authz[p].pc # "done" /\ authz'[p].pc = "done"
                /\ authz'[p].result = "policy"
                /\ authz'[p].policy.Effect = "Deny" ) =>
                  /\ store' = store
                  /\ \A k \in WritesOf(authz'[p].ops) : ~authz'[p].ops[k].ok
                  /\ Cardinality(ReadsOf(authz'[p].ops)) <= 1

\* C40 (SpecAuthz): the table changes only in the successful update of a
\* refresh, after a call of the token endpoint; an invocation that reads a
\* record expiring in 300 s or more, or one without a refresh token, ends at
\* once with one read, no write and no call of the token endpoint; an
\* invocation that ends in Deny has left the table as it was.
C40_WriteFootprint == [][C40_Step]_vars

\* a session with a refresh token that expires in exactly 300 s has been
\* allowed on one read
C40_Witness ==
    \E p \in DOMAIN authz :
        /\ Allowed(p)
        /\ Truthy(GetN(authz[p].item, "refresh_token"))
        /\ authz[p].item.expires_at = authz[p].t0 + 300
        /\ Len(authz[p].ops) = 1
        /\ authz[p].item \in store

====
